---- MODULE Spec2Model ----
(***************************************************************************)
(* Micro Wars scenario builder (src/build_scenario.py): the trigger-graph  *)
(* compiler.  ScnData registers named triggers, records activate and       *)
(* deactivate edges between them by name, compiles every round event into  *)
(* triggers and edges, and a final pass turns every edge into an effect of *)
(* the source trigger carrying the target's index.  The emitted triggers   *)
(* are then run by the game's trigger engine.                              *)
(*                                                                         *)
(* Modelled state of a trigger: name, enabled, looping, conditions and the *)
(* effects that change variables or (de)activate triggers or end the game. *)
(* Effects that only touch units, views, technologies, resources or the    *)
(* displayed text are left out.                                            *)
(***************************************************************************)
EXTENDS Integers, Sequences, FiniteSets, TLC

VARIABLES
    scn,        \* the ScnData object: its fields, and the exception that ended the last call
    hash_seed,  \* the interpreter's string-hash seed: fixes the iteration order of every set
    pc,         \* position of the caller of ScnData
    passes,     \* number of completed runs of _add_activate_and_deactivate_effects
    declared,   \* history: the edge declarations accepted one by one, in call order
    game,       \* the trigger engine running the emitted triggers
    fight,      \* the input's fight: what Fight's constructor is given and what it makes of it
    cli,        \* the build command: its arguments, the files read and written, where it stands
    call,       \* a call of a function of the event module: its arguments and its outcome
    research    \* the technologies of an event list: where they are researched and when

vars == <<scn, hash_seed, pc, passes, declared, game, fight, cli, call, research>>

-----------------------------------------------------------------------------
(* Bounds of the model.                                                    *)

\* Names used by the callers of the registration interface in SpecApi.
ApiNames == {"A", "B", "C"}

\* Largest number of accepted edge declarations in SpecApi.
MaxEdges == 2

\* Largest number of runs of the resolution pass on one ScnData.
MaxPasses == 2

\* Number of distinct string-hash seeds (iteration orders of a set).
HashSeeds == 6

\* Hash seeds tried when a whole scenario is built.
BuildSeeds == 2

\* Rounds of an event list besides the tiebreaker.
MaxRounds == 2

\* The largest population a player has in a game.
MaxPop == 1

\* Firings in a game of the looping triggers that wait on the players or on a timer.
MaxLoopFirings == 2

\* Variables the scenario template already names.
TemplateVars == 1

\* Units of the fight of the input.
FightUnits == 1

\* Flags per player and boar in the Steal the Bacon template.
TemplateBaconFlags == 1
TemplateBoars == 1

\* Flags in the Tower Battlefield template.
TemplateTowerFlags == 1

\* Units per player in the template of a minigame that names no kind of unit.
TemplateUnits == 1

\* Galleys per player in the Galley Micro template.
TemplateGalleys == 1

\* Archers and skirmishers in the Xbow Timer template.
TemplateArchers == 1
TemplateSkirms == 1

\* King units per player in the Regicide template.
TemplateKings == 1

-----------------------------------------------------------------------------
(* Sequences and sets.                                                     *)

Range(s) == {s[i] : i \in DOMAIN s}

Reverse(s) == [i \in 1..Len(s) |-> s[Len(s) + 1 - i]]

Rotate(s, k) == IF s = <<>> THEN s
                ELSE [i \in 1..Len(s) |-> s[((i - 1 + k) % Len(s)) + 1]]

\* Iteration order of a Python set of str under hash seed `seed`, the set
\* given by its elements `s`: the order is that of the hash table, which
\* depends on the per-process hash seed and not on the order of insertion.
\* An unmodified set iterates the same way every time within one process.
SetOrder(s, seed) ==
    LET r == Rotate(s, seed \div 2)
    IN  IF seed % 2 = 0 THEN r ELSE Reverse(r)

\* seq1 \o seq2 \o ... for a sequence of sequences.
RECURSIVE FlattenRange(_, _, _)
FlattenRange(ss, lo, hi) ==
    IF lo > hi THEN <<>>
    ELSE IF lo = hi THEN ss[lo]
    ELSE LET mid == (lo + hi) \div 2
         IN  FlattenRange(ss, lo, mid) \o FlattenRange(ss, mid + 1, hi)

Flatten(ss) == FlattenRange(ss, 1, Len(ss))

\* The elements of s without repetitions, in order of first occurrence.
Distinct(s) ==
    LET first == SelectSeq([i \in 1..Len(s) |-> i],
                           LAMBDA i : \A j \in 1..(i - 1) : s[j] # s[i])
    IN  [k \in 1..Len(first) |-> s[first[k]]]

NoRepeat(s) == Cardinality(Range(s)) = Len(s)

-----------------------------------------------------------------------------
(* ScnData: construction and the registration interface.                   *)

\* A defaultdict(set): the keys in insertion order, and for every key the
\* elements of its set (listed in the order they were added).
EmptyDict == [keys |-> <<>>, sets |-> <<>>]

\* TriggerObject as trigger_manager.add_trigger(name) creates it.
NewTrigger(name) ==
    [name |-> name, enabled |-> TRUE, looping |-> FALSE,
     conditions |-> <<>>, effects |-> <<>>]

\* ScnData.__init__
NewScnData(events, var_count, regicide_hero) ==
    [events |-> events,
     var_count |-> var_count,       \* number of variables the template already names
     regicide_hero |-> regicide_hero,
     trigger_ids |-> <<>>,          \* bidict name -> index (a function on names)
     var_ids |-> <<>>,              \* bidict name -> index (a function on names)
     activate_triggers |-> EmptyDict,
     deactivate_triggers |-> EmptyDict,
     round_objectives |-> [i \in 1..Len(events) |-> <<>>],
     triggers |-> <<>>,             \* trigger manager's list; triggers[i + 1] has index i
     next_round |-> 0,              \* loop index of _setup_rounds
     raised |-> "none"]

Registered(d) == DOMAIN d.trigger_ids

AddTriggerUnchecked(d, name) ==
    [d EXCEPT !.trigger_ids = [n \in (DOMAIN d.trigger_ids) \cup {name} |->
                                  IF n = name THEN Cardinality(DOMAIN d.trigger_ids)
                                  ELSE d.trigger_ids[n]],
              !.triggers = Append(d.triggers, NewTrigger(name)),
              !.raised = "none"]

\* A registration that numbers the triggers from 1.
AddTriggerFromOne(d, name) ==
    IF name \in DOMAIN d.trigger_ids
    THEN [d EXCEPT !.raised = "ValueError"]
    ELSE [d EXCEPT !.trigger_ids = [n \in (DOMAIN d.trigger_ids) \cup {name} |->
                                       IF n = name THEN Cardinality(DOMAIN d.trigger_ids) + 1
                                       ELSE d.trigger_ids[n]],
                   !.triggers = Append(d.triggers, NewTrigger(name)),
                   !.raised = "none"]

\* ScnData._add_trigger
AddTrigger(d, name) ==
    IF name \in DOMAIN d.trigger_ids
    THEN [d EXCEPT !.raised = "ValueError"]
    ELSE [d EXCEPT !.trigger_ids = [n \in (DOMAIN d.trigger_ids) \cup {name} |->
                                       IF n = name THEN Cardinality(DOMAIN d.trigger_ids)
                                       ELSE d.trigger_ids[n]],
                   !.triggers = Append(d.triggers, NewTrigger(name)),
                   !.raised = "none"]

\* mapping[source]: reading a defaultdict creates the key.
Touch(m, source) ==
    IF source \in DOMAIN m.sets THEN m
    ELSE [keys |-> Append(m.keys, source),
          sets |-> [k \in (DOMAIN m.sets) \cup {source} |->
                       IF k = source THEN <<>> ELSE m.sets[k]]]

\* mapping[source].add(target)
DictAdd(m, source, target) ==
    LET t == Touch(m, source)
    IN  IF target \in Range(t.sets[source]) THEN t
        ELSE [t EXCEPT !.sets[source] = Append(@, target)]

Targets(m, source) == IF source \in DOMAIN m.sets THEN Range(m.sets[source]) ELSE {}

AddActivateUnchecked(d, source, target) ==
    [d EXCEPT !.activate_triggers =
                  [keys |-> Touch(@, source).keys,
                   sets |-> [Touch(@, source).sets EXCEPT ![source] = Append(@, target)]],
              !.raised = "none"]

\* ScnData._add_activate
AddActivate(d, source, target) ==
    IF target \in Targets(d.activate_triggers, source)
    THEN [d EXCEPT !.raised = "ValueError"]
    ELSE [d EXCEPT !.activate_triggers = DictAdd(@, source, target),
                   !.raised = "none"]

\* ScnData._add_deactivate
AddDeactivate(d, source, target) ==
    IF target \in Targets(d.deactivate_triggers, source)
    THEN [d EXCEPT !.raised = "ValueError"]
    ELSE [d EXCEPT !.deactivate_triggers = DictAdd(@, source, target),
                   !.raised = "none"]

-----------------------------------------------------------------------------
(* The resolution pass.                                                    *)

\* util_triggers.add_effect_activate / add_effect_deactivate
EffectActivate(target_id) == [type |-> "activate_trigger", trigger_id |-> target_id]
EffectDeactivate(target_id) == [type |-> "deactivate_trigger", trigger_id |-> target_id]

KindOrderReversed == <<"deactivate", "activate">>

\* effect_mapping_and_function: the activate mapping is walked before the
\* deactivate mapping.
KindOrder == <<"activate", "deactivate">>

Mapping(d, kind) ==
    IF kind = "activate" THEN d.activate_triggers ELSE d.deactivate_triggers

\* An effect function that does not look at the kind of the edge.
EdgeEffectActivateOnly(d, kind, target) == EffectActivate(d.trigger_ids[target])

EdgeEffect(d, kind, target) ==
    IF kind = "activate" THEN EffectActivate(d.trigger_ids[target])
    ELSE EffectDeactivate(d.trigger_ids[target])

\* The nested loops visit position <<k, i, j>>: mapping KindOrder[k], its i-th
\* source in key insertion order, that source's j-th target in set order.
\* The positions whose lookup in the bidict raises KeyError:
BadVisits(d, seed) ==
    UNION {LET m == Mapping(d, KindOrder[k])
           IN  UNION {LET source == m.keys[i]
                          ts == SetOrder(m.sets[source], seed)
                      IN  {<<k, i, j>> :
                              j \in {jj \in 1..Len(ts) :
                                        \/ source \notin Registered(d)
                                        \/ ts[jj] \notin Registered(d)}} :
                      i \in 1..Len(m.keys)} :
           k \in 1..Len(KindOrder)}

Before(p, q) ==
    \/ p[1] < q[1]
    \/ p[1] = q[1] /\ p[2] < q[2]
    \/ p[1] = q[1] /\ p[2] = q[2] /\ p[3] < q[3]

\* An edge whose source or target is not a registered trigger.
Dangling(d) == BadVisits(d, 0) # {}

\* The effects the pass appends to trigger `name` up to the first position in
\* `bad` (all of them when `bad` is empty), in the order it appends them.
SourceEffects(d, seed, name, bad) ==
    Flatten([k \in 1..Len(KindOrder) |->
        LET m == Mapping(d, KindOrder[k])
        IN  IF name \notin DOMAIN m.sets THEN <<>>
            ELSE LET ts == SetOrder(m.sets[name], seed)
                     n  == IF bad = {} THEN Len(ts)
                           ELSE LET first == CHOOSE p \in bad :
                                                \A q \in bad : p = q \/ Before(p, q)
                                    i == CHOOSE i \in 1..Len(m.keys) : m.keys[i] = name
                                IN  Cardinality({j \in 1..Len(ts) :
                                                    Before(<<k, i, j>>, first)})
                 IN  [j \in 1..n |-> EdgeEffect(d, KindOrder[k], ts[j])]])

\* The edge effects one complete run of the pass appends to trigger `name`.
OnePass(d, seed, name) == SourceEffects(d, seed, name, {})

ResolveSkipDangling(d, seed) ==
    LET ok == [d EXCEPT !.activate_triggers.sets =
                          [s \in DOMAIN @ \cap Registered(d) |->
                              SelectSeq(@[s], LAMBDA t : t \in Registered(d))],
                        !.deactivate_triggers.sets =
                          [s \in DOMAIN @ \cap Registered(d) |->
                              SelectSeq(@[s], LAMBDA t : t \in Registered(d))]]
    IN  [d EXCEPT !.triggers = [i \in 1..Len(d.triggers) |->
                      [d.triggers[i] EXCEPT !.effects =
                          @ \o OnePass(ok, seed, d.triggers[i].name)]],
                  !.raised = "none"]

ResolveReplace(d, seed) ==
    IF BadVisits(d, seed) # {} THEN [d EXCEPT !.raised = "KeyError"]
    ELSE [d EXCEPT !.triggers = [i \in 1..Len(d.triggers) |->
                      [d.triggers[i] EXCEPT !.effects =
                          OnePass(d, seed, d.triggers[i].name)]],
                   !.raised = "none"]

\* A pass that puts the edge effects before the effects a trigger already has.
ResolveFirst(d, seed) ==
    LET bad == BadVisits(d, seed)
    IN  [d EXCEPT !.triggers = [i \in 1..Len(d.triggers) |->
                      [d.triggers[i] EXCEPT !.effects =
                          SourceEffects(d, seed, d.triggers[i].name, bad) \o @]],
                  !.raised = IF bad = {} THEN "none" ELSE "KeyError"]

\* ScnData._add_activate_and_deactivate_effects: the lookup of an unregistered
\* name in the bidict raises KeyError and ends the pass where it stands.
Resolve(d, seed) ==
    LET bad == BadVisits(d, seed)
    IN  [d EXCEPT !.triggers = [i \in 1..Len(d.triggers) |->
                      [d.triggers[i] EXCEPT !.effects =
                          @ \o SourceEffects(d, seed, d.triggers[i].name, bad)]],
                  !.raised = IF bad = {} THEN "none" ELSE "KeyError"]

\* The state of the engine before a scenario is loaded.
NoGame == [loaded |-> FALSE]

\* No fight is under construction.
NoFight == [made |-> "none"]

\* The build command has not been run.
NoCli == [at |-> "none"]

\* No function call is under way.
NoCall == [fn |-> "none"]
NoResearch == [at |-> "none"]

-----------------------------------------------------------------------------
(* SpecApi: any caller of the registration interface, then the pass.       *)

InitApi ==
    /\ scn = NewScnData(<<>>, 0, "king")
    /\ hash_seed \in 0..(HashSeeds - 1)
    /\ pc = "build"
    /\ passes = 0
    /\ declared = <<>>
    /\ game = NoGame
    /\ fight = NoFight
    /\ cli = NoCli
    /\ call = NoCall
    /\ research = NoResearch

CallAddTrigger(name) ==
    /\ pc = "build"
    /\ scn' = AddTrigger(scn, name)
    /\ UNCHANGED <<hash_seed, pc, passes, declared, game, fight, cli, call, research>>

CallAddActivate(source, target) ==
    /\ pc = "build"
    /\ Len(declared) < MaxEdges \/ target \in Targets(scn.activate_triggers, source)
    /\ scn' = AddActivate(scn, source, target)
    /\ declared' = IF scn'.raised = "none"
                   THEN Append(declared, <<"activate", source, target>>)
                   ELSE declared
    /\ UNCHANGED <<hash_seed, pc, passes, game, fight, cli, call, research>>

CallAddDeactivate(source, target) ==
    /\ pc = "build"
    /\ Len(declared) < MaxEdges \/ target \in Targets(scn.deactivate_triggers, source)
    /\ scn' = AddDeactivate(scn, source, target)
    /\ declared' = IF scn'.raised = "none"
                   THEN Append(declared, <<"deactivate", source, target>>)
                   ELSE declared
    /\ UNCHANGED <<hash_seed, pc, passes, game, fight, cli, call, research>>

CallResolve ==
    /\ pc \in {"build", "resolved"}
    /\ passes < MaxPasses
    /\ scn' = Resolve(scn, hash_seed)
    /\ pc' = IF scn'.raised = "none" THEN "resolved" ELSE "aborted"
    /\ passes' = IF scn'.raised = "none" THEN passes + 1 ELSE passes
    /\ UNCHANGED <<hash_seed, declared, game, fight, cli, call, research>>

NextApi ==
    \/ \E name \in ApiNames : CallAddTrigger(name)
    \/ \E source \in ApiNames, target \in ApiNames : CallAddActivate(source, target)
    \/ \E source \in ApiNames, target \in ApiNames : CallAddDeactivate(source, target)
    \/ CallResolve

SpecApi == InitApi /\ [][NextApi]_vars

-----------------------------------------------------------------------------
-----------------------------------------------------------------------------
(* Constants of the builder.                                               *)

MAX_POINTS == 100
DELAY_BEGIN == 5
DELAY_ROUND_AFTER == 3
DELAY_ROUND_BEFORE == 3
DELAY_CLEANUP == 3
DELAY_VICTORY == 10
BOAR_POINTS == 20
TOWER_AWARD_POINTS == 1
TOWER_AWARD_TIME == 5
TOWER_MAX_NUM == 5
ACC_ATTR_POP_HEADROOM == 11

FIGHT_CENTER_X == 121
FIGHT_CENTER_Y == 120

\* The unit constant of a map revealer; units go by their names here.
UNIT_ID_MAP_REVEALER == "map_revealer"

\* The center of the area of every minigame.
MINIGAME_CENTERS ==
    [name \in {"Steal the Bacon", "Tower Battlefield", "Galley Micro", "Xbow Timer",
               "Capture the Relic", "DauT Castle", "Castle Siege", "Regicide"} |->
        CASE name = "Steal the Bacon" -> <<200, 120>>
          [] name = "Tower Battlefield" -> <<200, 200>>
          [] name = "Galley Micro" -> <<119, 200>>
          [] name = "Xbow Timer" -> <<40, 200>>
          [] name = "Capture the Relic" -> <<40, 120>>
          [] name = "DauT Castle" -> <<36, 36>>
          [] name = "Castle Siege" -> <<120, 39>>
          [] name = "Regicide" -> <<200, 40>>]

TIEBREAKER_INIT_NAME == "[T] Initialize Tiebreaker"
CHECK_WINNER_NAME == "[V] Check Winner"
ROUND_OBJ_NAME == "[O] Round Objective Header"
TIEBREAKER_OBJ_NAME == "[O] Tiebreaker"
REVEALER_HIDE_NAME == "[I] Hide Map Revealers"

MINIGAME_NAMES ==
    <<"Steal the Bacon", "Tower Battlefield", "Galley Micro", "Xbow Timer",
      "Capture the Relic", "DauT Castle", "Castle Siege", "Regicide">>

INITIAL_VARIABLES ==
    << <<"p1-score", 0>>, <<"p2-score", 0>>, <<"score-difference", 0>>,
       <<"p1-wins", 0>>, <<"p2-wins", 0>>, <<"round", 0>>,
       <<"p1-boar", 0>>, <<"p2-boar", 0>>,
       <<"p1-battlefield-points", 0>>, <<"p2-battlefield-points", 0>>,
       <<"p1-most-relics", 0>>, <<"p2-most-relics", 0>>,
       <<"p1-castle-constructed", 0>>, <<"p2-castle-constructed", 0>>,
       <<"p1-castle-destroyed", 0>>, <<"p2-castle-destroyed", 0>>,
       <<"p1-hero-killed", 0>>, <<"p2-hero-killed", 0>> >>

ChangeVarOp == [set_op |-> 1, add |-> 2, subtract |-> 3, multiply |-> 4, divide |-> 5]
VarValComp == [equal |-> 0, less |-> 1, larger |-> 2, less_or_equal |-> 3,
               larger_or_equal |-> 4]

-----------------------------------------------------------------------------
(* Conditions and effects (util_triggers.py and the inline constructions   *)
(* of build_scenario.py).                                                  *)

\* A variable_value condition as the builder fills it in.
CondVariable(variable, comparison, amount, inverted) ==
    [type |-> "variable_value", variable |-> variable, comparison |-> comparison,
     amount_or_quantity |-> amount, inverted |-> inverted]

CondTimer(num_seconds) == [type |-> "timer", timer |-> num_seconds]

CondGaiaDefeated == [type |-> "player_defeated", player |-> 0]

CondPop0(player) ==
    [type |-> "accumulate_attribute", player |-> player, amount_or_quantity |-> 1,
     resource_type_or_tribute_list |-> ACC_ATTR_POP_HEADROOM, inverted |-> TRUE]

\* accumulate_attribute on the population headroom with a given amount.
CondPop(player, amount, inverted) ==
    [type |-> "accumulate_attribute", player |-> player, amount_or_quantity |-> amount,
     resource_type_or_tribute_list |-> ACC_ATTR_POP_HEADROOM, inverted |-> inverted]

\* object_in_area / objects_in_area / own_objects conditions: what is counted,
\* for which player, against which amount.
CondObjects(what, player, amount, inverted) ==
    [type |-> "object_in_area", object |-> what, player |-> player,
     amount_or_quantity |-> amount, inverted |-> inverted]

CondDestroyObj(unit_id) == [type |-> "destroy_object", unit_object |-> unit_id]

EffectChangeVariable(variable, operation, quantity) ==
    [type |-> "change_variable", from_variable |-> variable, operation |-> operation,
     quantity |-> quantity]

EffectDeclareVictory(player) == [type |-> "declare_victory", player_source |-> player]

\* ScnData._add_effect_p1_score
EffectP1Score(d, pts) ==
    << EffectChangeVariable(d.var_ids["p1-score"], ChangeVarOp.add, pts),
       EffectChangeVariable(d.var_ids["score-difference"], ChangeVarOp.add, pts) >>

EffectP2ScoreUnsigned(d, pts) ==
    << EffectChangeVariable(d.var_ids["p2-score"], ChangeVarOp.add, pts),
       EffectChangeVariable(d.var_ids["score-difference"], ChangeVarOp.add, pts) >>

\* ScnData._add_effect_p2_score
EffectP2Score(d, pts) ==
    << EffectChangeVariable(d.var_ids["p2-score"], ChangeVarOp.add, pts),
       EffectChangeVariable(d.var_ids["score-difference"], ChangeVarOp.subtract, pts) >>

\* ScnData._add_effect_score
EffectScore(d, player, pts) ==
    IF player = 1 THEN EffectP1Score(d, pts) ELSE EffectP2Score(d, pts)

other_player(p) == IF p = 1 THEN 2 ELSE 1

\* A trigger with the fields a compiler sets on it after _add_trigger.
Trig(name, enabled, looping, conditions, effects) ==
    [name |-> name, enabled |-> enabled, looping |-> looping,
     conditions |-> conditions, effects |-> effects]

\* ScnData._add_trigger_header
Header(name) == Trig("-- " \o name \o " --", FALSE, FALSE, <<>>, <<>>)

\* Consecutive _add_activate / _add_deactivate calls of one source, in call order.
Act(source, targets) == <<"activate", source, targets>>
Deact(source, targets) == <<"deactivate", source, targets>>

-----------------------------------------------------------------------------
(* Events (event.py).                                                      *)

\* util.pretty_print_name on the unit names used here.
pretty_print_name(name) ==
    CASE name = "archer" -> "Archer"
      [] name = "skirmisher" -> "Skirmisher"
      [] name = "elite_skirmisher" -> "Elite Skirmisher"
      [] OTHER -> name

RECURSIVE SumPoints(_, _)
SumPoints(points, ulst) ==
    IF ulst = <<>> THEN 0 ELSE points[Head(ulst)] + SumPoints(points, Tail(ulst))

\* A fight whose win bonuses ignore the units on the tile.
MakeFightFullBonus(points, p1_units, p2_units) ==
    [kind |-> "Fight", points |-> points, p1_units |-> p1_units, p2_units |-> p2_units,
     p2_bonus |-> MAX_POINTS, p1_bonus |-> MAX_POINTS]

\* Fight.__init__: the bonuses are what is left of MAX_POINTS after the
\* points of the opponent's units.
MakeFight(points, p1_units, p2_units) ==
    [kind |-> "Fight", points |-> points, p1_units |-> p1_units, p2_units |-> p2_units,
     p2_bonus |-> MAX_POINTS - SumPoints(points, p1_units),
     p1_bonus |-> MAX_POINTS - SumPoints(points, p2_units)]

Minigame(name) == [kind |-> "Minigame", name |-> name]

IsFight(e) == e.kind = "Fight"
IsMinigame(e) == e.kind = "Minigame"
-----------------------------------------------------------------------------
(* setup_scenario, first half: variables, initial triggers, objectives and *)
(* victory conditions.  A compiler's calls are collected as                *)
(*   [triggers |-> the triggers it creates, in creation order,             *)
(*    blocks   |-> its edge declarations, in call order,                   *)
(*    raised   |-> the exception it ends with]                             *)
(* and Apply makes them on the ScnData object.                             *)

Out(triggers, blocks) == [triggers |-> triggers, blocks |-> blocks, raised |-> "none"]
OutRaise(exception) == [triggers |-> <<>>, blocks |-> <<>>, raised |-> exception]

\* Targets declared for (kind, source) by a sequence of blocks, in call order.
BlockTargets(blocks, kind, source) ==
    LET mine == SelectSeq(blocks, LAMBDA b : b[1] = kind /\ b[2] = source)
    IN  Flatten([i \in 1..Len(mine) |-> mine[i][3]])

\* The mapping of one kind after the declarations of blocks.
MergeDict(m, blocks, kind) ==
    LET mine == SelectSeq(blocks, LAMBDA b : b[1] = kind /\ b[3] # <<>>)
        srcs == Distinct([i \in 1..Len(mine) |-> mine[i][2]])
        fresh == SelectSeq(srcs, LAMBDA s : s \notin DOMAIN m.sets)
    IN  [keys |-> m.keys \o fresh,
         sets |-> [s \in (DOMAIN m.sets) \cup Range(srcs) |->
                      (IF s \in DOMAIN m.sets THEN m.sets[s] ELSE <<>>)
                          \o BlockTargets(mine, kind, s)]]

\* The calls of out made one after the other: _add_trigger for every trigger
\* and _add_activate / _add_deactivate for every declared edge.  Any duplicate
\* name or duplicate edge raises ValueError and ends setup_scenario.
Apply(d, out) ==
    LET names == [i \in 1..Len(out.triggers) |-> out.triggers[i].name]
        act == MergeDict(d.activate_triggers, out.blocks, "activate")
        deact == MergeDict(d.deactivate_triggers, out.blocks, "deactivate")
        base == Cardinality(DOMAIN d.trigger_ids)
    IN  IF out.raised # "none" THEN [d EXCEPT !.raised = out.raised]
        ELSE IF \/ ~NoRepeat(names)
                \/ Range(names) \cap Registered(d) # {}
                \/ \E s \in DOMAIN act.sets : ~NoRepeat(act.sets[s])
                \/ \E s \in DOMAIN deact.sets : ~NoRepeat(deact.sets[s])
        THEN [d EXCEPT !.raised = "ValueError"]
        ELSE [d EXCEPT
                !.trigger_ids = [n \in Registered(d) \cup Range(names) |->
                    IF n \in Registered(d) THEN d.trigger_ids[n]
                    ELSE base + (CHOOSE i \in 1..Len(names) : names[i] = n) - 1],
                !.triggers = d.triggers \o out.triggers,
                !.activate_triggers = act,
                !.deactivate_triggers = deact,
                !.raised = "none"]

\* ScnData.num_rounds
num_rounds(d) == Len(d.events) - 1

\* effects.remove_object of the objects of a kind a player has; player 0 is
\* Gaia.
EffectRemoveObject(p, unit) ==
    [type |-> "remove_object", player_source |-> p, object_list_unit_id |-> unit]

\* A numbering of the variables that takes no notice of the template.
NameVariablesFromZero(d) ==
    [d EXCEPT !.var_ids = [n \in {INITIAL_VARIABLES[i][1] : i \in 1..Len(INITIAL_VARIABLES)} |->
        (CHOOSE i \in 1..Len(INITIAL_VARIABLES) : INITIAL_VARIABLES[i][1] = n) - 1]]

\* ScnData._name_variables: the variables are numbered after those the
\* template already names.
NameVariables(d) ==
    [d EXCEPT !.var_ids = [n \in {INITIAL_VARIABLES[i][1] : i \in 1..Len(INITIAL_VARIABLES)} |->
        d.var_count + (CHOOSE i \in 1..Len(INITIAL_VARIABLES) : INITIAL_VARIABLES[i][1] = n) - 1]]

\* A disabled objective trigger that is never checked off.
ObjGaia(name) == Trig(name, FALSE, FALSE, <<CondGaiaDefeated>>, <<>>)
\* A disabled objective trigger checked off when a variable equals amount.
ObjVar(d, name, var, amount) ==
    Trig(name, FALSE, FALSE,
         <<CondVariable(d.var_ids[var], VarValComp.equal, amount, FALSE)>>, <<>>)

\* ScnData._add_minigame_objective and the objective of a fight round.
RoundObjectives(d, e, index) ==
    LET r == "[O] Round " \o ToString(index) \o " "
    IN  IF IsFight(e) THEN <<ObjGaia("[O] Fight " \o ToString(index) \o " Objective")>>
        ELSE CASE e.name = "Steal the Bacon" ->
                 << ObjGaia(r \o "Steal the Bacon"),
                    ObjVar(d, "[O] Steal the Bacon Player 1 Boar", "p1-boar", 5),
                    ObjVar(d, "[O] Steal the Bacon Player 2 Boar", "p2-boar", 5) >>
          [] e.name = "Tower Battlefield" ->
                 << ObjGaia(r \o "Tower Battlefield"),
                    ObjGaia(r \o "Tower Battlefield Description"),
                    ObjVar(d, r \o "Tower Battlefield P1 Points",
                           "p1-battlefield-points", MAX_POINTS),
                    ObjVar(d, r \o "Tower Battlefield P2 Points",
                           "p2-battlefield-points", MAX_POINTS) >>
          [] e.name = "Galley Micro" -> << ObjGaia(r \o "Galley Micro") >>
          [] e.name = "Xbow Timer" -> << ObjGaia(r \o "Xbow Timer") >>
          [] e.name = "Capture the Relic" ->
                 << ObjGaia(r \o "Capture the Relic"),
                    ObjVar(d, "[O] Capture the Relic Player 1 Relics", "p1-most-relics", 1),
                    ObjVar(d, "[O] Capture the Relic Player 2 Relics", "p2-most-relics", 1) >>
          [] e.name = "DauT Castle" ->
                 << ObjGaia(r \o "DauT Castle"),
                    ObjVar(d, "[O] DauT Castle Player 1 Castle Constructed",
                           "p1-castle-constructed", 1),
                    ObjVar(d, "[O] DauT Castle Player 2 Castle Constructed",
                           "p2-castle-constructed", 1) >>
          [] e.name = "Castle Siege" ->
                 << ObjGaia(r \o "Castle Siege"),
                    ObjVar(d, "[O] Castle Siege Player 1 Castle Destroyed",
                           "p1-castle-destroyed", 1),
                    ObjVar(d, "[O] Castle Siege Player 2 Castle Destroyed",
                           "p2-castle-destroyed", 1) >>
          [] e.name = "Regicide" ->
                 << ObjGaia(r \o "Regicide"),
                    ObjVar(d, "[O] Regicide Kill Player 1's Hero", "p1-hero-killed", 1),
                    ObjVar(d, "[O] Regicide Kill Player 2's Hero", "p2-hero-killed", 1) >>
          [] OTHER -> <<>>

ImplementedAny(e) == TRUE

\* ScnData._add_minigame_objective: the names that have an objective
Implemented(e) == IsFight(e) \/ e.name \in Range(MINIGAME_NAMES)

\* ScnData._add_objectives
Objectives(d) ==
    LET score(name, var) ==
            Trig(name, TRUE, FALSE,
                 <<CondVariable(d.var_ids[var], VarValComp.equal, 1, FALSE)>>, <<>>)
        always(name) == Trig(name, TRUE, FALSE, <<CondGaiaDefeated>>, <<>>)
    IN  << Header("Objectives"),
           always("[O] Objectives Title"),
           always("[O] Objectives Description"),
           always("[O] Objectives Score Header"),
           score("[O] Objectives Score P1", "p1-wins"),
           score("[O] Objectives Score P2", "p2-wins"),
           always("[O] Display Score Header"),
           score("[O] Display Score P1", "p1-wins"),
           score("[O] Display Score P2", "p2-wins"),
           ObjGaia(ROUND_OBJ_NAME),
           ObjGaia(TIEBREAKER_OBJ_NAME) >>
        \o Flatten([i \in 1..Len(d.events) |->
                       IF i = 1 THEN <<>> ELSE RoundObjectives(d, d.events[i], i - 1)])

\* Winner checks that both wait for a positive score difference.
WinnerComparisonBothLarger(player) == VarValComp.larger

\* ScnData._add_victory_conditions: the comparison of the score difference
\* with 0 that the Check Winner trigger of a player waits for.
WinnerComparison(player) == IF player = 1 THEN VarValComp.larger ELSE VarValComp.less

\* ScnData._add_victory_conditions
VictoryConditions(d) ==
    LET diff(comparison, inverted) ==
            CondVariable(d.var_ids["score-difference"], comparison, 0, inverted)
        wins(var) == CondVariable(d.var_ids[var], VarValComp.equal, 1, FALSE)
        set(var) == EffectChangeVariable(d.var_ids[var], ChangeVarOp.set_op, 1)
    IN  Out(<< Header("Victory"),
               Trig("[V] Rounds Completed", TRUE, FALSE,
                    <<CondVariable(d.var_ids["round"], VarValComp.equal,
                                   num_rounds(d) + 1, FALSE)>>, <<>>),
               Trig("[V] Check Tie", FALSE, FALSE, <<diff(VarValComp.equal, FALSE)>>, <<>>),
               Trig("[V] Check Not Tie", FALSE, FALSE, <<diff(VarValComp.equal, TRUE)>>, <<>>),
               Trig(CHECK_WINNER_NAME, FALSE, FALSE, <<>>, <<>>),
               Trig("[V] Check Player 1 Winner", FALSE, FALSE,
                    <<diff(WinnerComparison(1), FALSE)>>, <<set("p1-wins")>>),
               Trig("[V] Check Player 2 Winner", FALSE, FALSE,
                    <<diff(WinnerComparison(2), FALSE)>>, <<set("p2-wins")>>),
               Trig("[V] Player 1 is Victorious", TRUE, FALSE, <<wins("p1-wins")>>, <<>>),
               Trig("[V] Player 2 is Victorious", TRUE, FALSE, <<wins("p2-wins")>>, <<>>),
               Trig("[V] Declare Player 1 Victory", FALSE, FALSE,
                    <<CondTimer(DELAY_VICTORY)>>, <<EffectDeclareVictory(1)>>),
               Trig("[V] Declare Player 2 Victory", FALSE, FALSE,
                    <<CondTimer(DELAY_VICTORY)>>, <<EffectDeclareVictory(2)>>) >>,
            << Act("[V] Rounds Completed", <<"[V] Check Tie", "[V] Check Not Tie">>),
               Deact("[V] Check Tie", <<"[V] Check Not Tie">>),
               Act("[V] Check Tie", <<TIEBREAKER_INIT_NAME>>),
               Deact("[V] Check Not Tie", <<"[V] Check Tie">>),
               Act("[V] Check Not Tie", <<CHECK_WINNER_NAME>>),
               Act(CHECK_WINNER_NAME,
                   <<"[V] Check Player 1 Winner", "[V] Check Player 2 Winner">>),
               Deact("[V] Check Player 1 Winner", <<"[V] Check Player 2 Winner">>),
               Deact("[V] Check Player 2 Winner", <<"[V] Check Player 1 Winner">>),
               Act("[V] Player 1 is Victorious", <<"[V] Declare Player 1 Victory">>),
               Deact("[V] Player 1 is Victorious", <<"[V] Player 2 is Victorious">>),
               Act("[V] Player 2 is Victorious", <<"[V] Declare Player 2 Victory">>),
               Deact("[V] Player 2 is Victorious", <<"[V] Player 1 is Victorious">>) >>)

\* ScnData._add_initial_triggers
InitialTriggers(d) ==
    LET victory == VictoryConditions(d)
    IN  IF \E i \in 2..Len(d.events) : ~Implemented(d.events[i])
        THEN OutRaise("AssertionError")
        ELSE Out(<< Header("Init"),
                    Trig("[I] Initialize Variables", TRUE, FALSE, <<>>,
                         [i \in 1..Len(INITIAL_VARIABLES) |->
                             EffectChangeVariable(i - 1, ChangeVarOp.set_op,
                                                  INITIAL_VARIABLES[i][2])]),
                    Trig("[I] Initialize Start Timer", TRUE, FALSE,
                         <<CondTimer(DELAY_BEGIN)>>,
                         <<EffectChangeVariable(d.var_ids["round"], ChangeVarOp.add, 1)>>),
                    Trig("[I] Initialize Starting Player Views", TRUE, FALSE, <<>>, <<>>),
                    Trig(REVEALER_HIDE_NAME, FALSE, TRUE, <<>>,
                         [p \in 1..3 |-> EffectRemoveObject(p - 1, UNIT_ID_MAP_REVEALER)]),
                    Trig("[I] Set Boar Food to 0", TRUE, FALSE, <<>>, <<>>),
                    Trig("[I] Change Research/Train Locations", TRUE, FALSE, <<>>, <<>>) >>
                    \o Objectives(d) \o victory.triggers,
                 <<Deact(REVEALER_HIDE_NAME, <<REVEALER_HIDE_NAME>>)>> \o victory.blocks)

\* The names _add_objectives appends to _round_objectives.
ObjectiveNames(d) ==
    [i \in 1..Len(d.events) |->
        IF i = 1 THEN <<>>
        ELSE LET objs == RoundObjectives(d, d.events[i], i - 1)
             IN  [k \in 1..Len(objs) |-> objs[k].name]]
-----------------------------------------------------------------------------
(* setup_scenario, second half: the rounds.                                *)

\* A prefix that numbers the rounds from the first event of the list.
PrefixFromOne(index) == "[R" \o ToString(index + 1) \o "]"

\* _TriggerNames.prefix
Prefix(index) == IF index # 0 THEN "[R" \o ToString(index) \o "]" ELSE "[T]"

\* _TriggerNames
TriggerNames(index) ==
    [init |-> IF index # 0 THEN Prefix(index) \o " Initialize Round"
              ELSE TIEBREAKER_INIT_NAME,
     begin |-> Prefix(index) \o " Begin Round",
     p1_wins |-> Prefix(index) \o " Player 1 Wins Round",
     p2_wins |-> Prefix(index) \o " Player 2 Wins Round",
     cleanup |-> Prefix(index) \o " Cleanup Round",
     inc |-> Prefix(index) \o " Increment Round"]

\* An Initialize Round trigger that starts enabled at every index.
InitEnabledAlways(index) == TRUE

\* _RoundTriggers.__init__: the Initialize Round trigger of the tiebreaker
\* starts disabled.
InitEnabled(index) == index # 0

\* An Initialize Round trigger that waits for the round counter to pass its index.
InitConditionsOffByOne(d, index) ==
    IF index # 0
    THEN <<CondVariable(d.var_ids["round"], VarValComp.equal, index + 1, FALSE)>>
    ELSE <<>>

\* _RoundTriggers.__init__: the condition of the Initialize Round trigger, the
\* round counter equal to the index; the tiebreaker's trigger has none.
InitConditions(d, index) ==
    IF index # 0
    THEN <<CondVariable(d.var_ids["round"], VarValComp.equal, index, FALSE)>>
    ELSE <<>>

\* Win triggers that start enabled.
WinEnabledAlways(index) == TRUE

\* _RoundTriggers.__init__: the Player 1 Wins and Player 2 Wins triggers of
\* every round start disabled.
WinEnabled(index) == FALSE

\* An Increment Round trigger that adds to the round counter at every index.
IncEffectsEveryIndex(d, index) ==
    <<EffectChangeVariable(d.var_ids["round"], ChangeVarOp.add, 1)>>

\* _RoundTriggers.__init__, the effects put on the Increment Round trigger
\* directly: the tiebreaker (index 0) does not change the round.
IncEffects(d, index) ==
    IF index # 0
    THEN <<EffectChangeVariable(d.var_ids["round"], ChangeVarOp.add, 1)>>
    ELSE <<>>

\* A Cleanup Round trigger that leaves the objectives of its round alone.
CleanupObjectivesNone(d, index) == <<>>

\* _RoundTriggers.__init__: the round-specific objectives Cleanup Round
\* deactivates.
CleanupObjectives(d, index) == d.round_objectives[index + 1]

\* trigger.add_condition / add_effect on a trigger already created.
WithConds(t, conds) == [t EXCEPT !.conditions = @ \o conds]
WithEffects(t, effs) == [t EXCEPT !.effects = @ \o effs]

\* effects.create_object for a unit of a player.
EffectCreateObject(p, unit) ==
    [type |-> "create_object", player_source |-> p, object_list_unit_id |-> unit]

\* effects.change_ownership of a unit from one player to another; player 0
\* is Gaia.
EffectChangeOwnership(source, target, unit) ==
    [type |-> "change_ownership", player_source |-> source, player_target |-> target,
     object_list_unit_id |-> unit]

\* ScnData._create_unit_sequence_explicit, the effects put on init for the
\* units of player p: each unit is created for p and handed to Gaia.
UnitInitEffects(p, ulst) ==
    Flatten([k \in 1..Len(ulst) |->
                <<EffectCreateObject(p, ulst[k]), EffectChangeOwnership(p, 0, ulst[k])>>])

\* ScnData._create_unit_sequence_explicit, the effects put on begin for the
\* units of player p: each unit is handed from Gaia to p.
UnitBeginEffects(p, ulst) ==
    [k \in 1..Len(ulst) |-> EffectChangeOwnership(0, p, ulst[k])]

\* _RoundTriggers.__init__: the center of the area of the event.
CenterPos(e) ==
    IF IsMinigame(e) THEN MINIGAME_CENTERS[e.name] ELSE <<FIGHT_CENTER_X, FIGHT_CENTER_Y>>

\* ScnData._add_revealers: map revealers for both players around a center.
\* One effect stands for the effects of all the positions of
\* map_revealer_pos(center).
AddRevealers(center) ==
    [p \in 1..2 |->
        [type |-> "create_object", player_source |-> p,
         object_list_unit_id |-> UNIT_ID_MAP_REVEALER, location |-> center]]

\* _RoundTriggers.__init__: the revealers Initialize Round creates.  The
\* event before the one of index 0 is events[-1], the last of the list.
InitRevealers(d, index) ==
    LET e == d.events[index + 1]
        prev == d.events[IF index = 0 THEN Len(d.events) ELSE index]
    IN  IF \/ IsMinigame(e)
           \/ IsFight(e) /\ (index = 1 \/ IsMinigame(prev))
        THEN AddRevealers(CenterPos(e))
        ELSE <<>>

\* _RoundTriggers.__init__: the six triggers every round is built on, and
\* the edges between them.  events[index + 1] is the event of round index.
RoundTriggers(d, index) ==
    LET names == TriggerNames(index)
        e == d.events[index + 1]
        obj_names == d.round_objectives[index + 1]
        last == index = num_rounds(d)
        hide == \/ IsMinigame(e)
                \/ IsFight(e) /\ ~last /\ IsMinigame(d.events[index + 2])
    IN  [names |-> names,
         init |-> Trig(names.init, InitEnabled(index), FALSE, InitConditions(d, index),
                       InitRevealers(d, index)),
         begin |-> Trig(names.begin, FALSE, FALSE, <<CondTimer(DELAY_ROUND_BEFORE)>>, <<>>),
         p1_wins |-> Trig(names.p1_wins, WinEnabled(index), FALSE, <<>>, <<>>),
         p2_wins |-> Trig(names.p2_wins, WinEnabled(index), FALSE, <<>>, <<>>),
         cleanup |-> Trig(names.cleanup, FALSE, FALSE, <<CondTimer(DELAY_CLEANUP)>>, <<>>),
         inc |-> Trig(names.inc, FALSE, FALSE, <<CondTimer(DELAY_ROUND_AFTER)>>,
                      IncEffects(d, index)),
         blocks |->
            << Act(names.init,
                   (IF index # 0
                    THEN (IF index = 1 THEN <<ROUND_OBJ_NAME>> ELSE <<>>) \o obj_names
                    ELSE <<TIEBREAKER_OBJ_NAME>>) \o <<names.begin>>),
               Act(names.p1_wins, <<names.cleanup>>),
               Act(names.p2_wins, <<names.cleanup>>),
               Act(names.cleanup, <<names.inc>>),
               Deact(names.cleanup, IF last THEN <<ROUND_OBJ_NAME>> ELSE <<>>),
               Act(names.cleanup, IF hide THEN <<REVEALER_HIDE_NAME>> ELSE <<>>),
               Deact(names.cleanup, CleanupObjectives(d, index)) >>
            \o (IF index # 0 THEN <<>>
                ELSE << Deact(names.inc, <<TIEBREAKER_OBJ_NAME>>),
                        Act(names.inc, <<CHECK_WINNER_NAME>>) >>)]

\* ScnData._create_unit_sequence for the units of player 1 and then those of
\* player 2, on the Initialize Round and Begin Round triggers of a round.
WithUnits(rts, p1_units, p2_units) ==
    [rts EXCEPT !.init = WithEffects(@, UnitInitEffects(1, p1_units)
                                           \o UnitInitEffects(2, p2_units)),
                !.begin = WithEffects(@, UnitBeginEffects(1, p1_units)
                                            \o UnitBeginEffects(2, p2_units))]

\* Units of one kind, as many as the template holds for a player.
TemplateOf(unit, count) == [k \in 1..count |-> unit]

\* The six triggers of a round in creation order.
RoundSix(rts) == <<rts.init, rts.begin, rts.p1_wins, rts.p2_wins, rts.cleanup, rts.inc>>


\* Counter(u.unit_id for u in ulst): the unit names in order of first
\* occurrence, each with its count.
UnitCounts(ulst) ==
    LET names == Distinct(ulst)
    IN  [i \in 1..Len(names) |->
            <<names[i], Cardinality({k \in 1..Len(ulst) : ulst[k] = names[i]})>>]

\* ScnData._add_fight_units: one trigger per unit of the player, awarding
\* the unit's points to the other player.
FightUnitTriggers(d, index, p, ulst) ==
    LET f == d.events[index + 1]
        cnts == UnitCounts(ulst)
    IN  Flatten([i \in 1..Len(cnts) |->
            [k \in 1..cnts[i][2] |->
                Trig(Prefix(index) \o " P" \o ToString(p) \o " "
                        \o pretty_print_name(cnts[i][1]) \o " " \o ToString(k - 1),
                     FALSE, FALSE,
                     <<CondObjects(cnts[i][1], p, k, TRUE)>>,
                     EffectScore(d, other_player(p), f.points[cnts[i][1]]))]])

TrigNames(ts) == [i \in 1..Len(ts) |-> ts[i].name]

\* A fight whose win triggers are not declared to deactivate each other.
FightWinBlocksNoExclusion(n) == <<Act(n.begin, <<n.p1_wins, n.p2_wins>>)>>

\* ScnData._add_fight: the edges of the two win triggers.
FightWinBlocks(n) ==
    << Act(n.begin, <<n.p1_wins, n.p2_wins>>),
       Deact(n.p1_wins, <<n.p2_wins>>),
       Deact(n.p2_wins, <<n.p1_wins>>) >>

\* A fight whose win triggers leave the per-unit point triggers enabled.
AddFightKeepsUnitPoints(d, index) ==
    LET f == d.events[index + 1]
        rts == WithUnits(RoundTriggers(d, index), f.p1_units, f.p2_units)
        n == TriggerNames(index)
        u1 == FightUnitTriggers(d, index, 1, f.p1_units)
        u2 == FightUnitTriggers(d, index, 2, f.p2_units)
    IN  Out(<< rts.init, rts.begin,
               WithConds(WithEffects(rts.p1_wins, EffectP1Score(d, f.p1_bonus)),
                         <<CondPop0(2)>>),
               WithConds(WithEffects(rts.p2_wins, EffectP2Score(d, f.p2_bonus)),
                         <<CondPop0(1)>>),
               rts.cleanup, rts.inc >> \o u1 \o u2,
            rts.blocks \o FightWinBlocks(n) \o
            << Act(n.begin, TrigNames(u1)),
               Act(n.begin, TrigNames(u2)) >>)

\* ScnData._add_fight
AddFight(d, index) ==
    LET f == d.events[index + 1]
        rts == WithUnits(RoundTriggers(d, index), f.p1_units, f.p2_units)
        n == TriggerNames(index)
        u1 == FightUnitTriggers(d, index, 1, f.p1_units)
        u2 == FightUnitTriggers(d, index, 2, f.p2_units)
    IN  Out(<< rts.init, rts.begin,
               WithConds(WithEffects(rts.p1_wins, EffectP1Score(d, f.p1_bonus)),
                         <<CondPop0(2)>>),
               WithConds(WithEffects(rts.p2_wins, EffectP2Score(d, f.p2_bonus)),
                         <<CondPop0(1)>>),
               rts.cleanup, rts.inc >> \o u1 \o u2,
            rts.blocks \o FightWinBlocks(n) \o
            << Act(n.begin, TrigNames(u1)),
               Deact(n.p1_wins, TrigNames(u1)),
               Act(n.begin, TrigNames(u2)),
               Deact(n.p2_wins, TrigNames(u2)) >>)
-----------------------------------------------------------------------------
(* Minigames: Steal the Bacon and Tower Battlefield.                       *)

\* Position of the k-th flag of player p in the Steal the Bacon template.
BaconFlagPos(p, k) ==
    "(" \o ToString(10 * p + k) \o ", " \o ToString(k) \o ")"

\* ScnData._add_steal_the_bacon
AddStealTheBacon(d, index) ==
    LET rts == WithUnits(WithUnits(RoundTriggers(d, index),
                                   <<"scout_cavalry">>, <<"scout_cavalry">>),
                         TemplateOf("flag", TemplateBaconFlags),
                         TemplateOf("flag", TemplateBaconFlags))
        n == TriggerNames(index)
        prefix == Prefix(index)
        boar_dead_name == prefix \o " All Boar are Dead"
        respawn(p) == prefix \o " P" \o ToString(p) \o " Scout Respawn 1"
        countdown(p) == prefix \o " P" \o ToString(p) \o " Scout Countdown"
        scout(p) ==
            << Trig(respawn(p), FALSE, TRUE, <<CondPop0(p)>>, <<>>),
               Trig(countdown(p), FALSE, FALSE, <<CondTimer(10)>>, <<>>) >>
        boar(p) == IF p = 1 THEN "p1-boar" ELSE "p2-boar"
        captures(p) ==
            [k \in 1..TemplateBaconFlags |->
                Trig(prefix \o " P" \o ToString(p) \o " Capture at " \o BaconFlagPos(p, k),
                     FALSE, FALSE,
                     <<CondObjects("boar at flag " \o BaconFlagPos(p, k), 0, 1, FALSE)>>,
                     EffectScore(d, p, BOAR_POINTS)
                        \o <<EffectChangeVariable(d.var_ids[boar(p)], ChangeVarOp.add, 1)>>)]
        scout_blocks(p) ==
            << Act(n.begin, <<respawn(p)>>),
               Deact(respawn(p), <<respawn(p)>>),
               Act(respawn(p), <<countdown(p)>>),
               Deact(n.cleanup, <<respawn(p)>>),
               Act(countdown(p), <<respawn(p)>>),
               Deact(n.cleanup, <<countdown(p)>>) >>
        capture_blocks(p) ==
            Flatten([k \in 1..TemplateBaconFlags |->
                << Act(n.begin, <<captures(p)[k].name>>),
                   Deact(n.p1_wins, <<captures(p)[k].name>>),
                   Deact(n.p2_wins, <<captures(p)[k].name>>) >>])
        won(var) == <<CondVariable(d.var_ids[var], VarValComp.equal, 5, FALSE)>>
    IN  IF index = 0 THEN OutRaise("AssertionError")
        ELSE Out(<< rts.init, rts.begin,
                    WithConds(rts.p1_wins, won("p1-boar")),
                    WithConds(rts.p2_wins, won("p2-boar")),
                    rts.cleanup, rts.inc >>
                 \o scout(1) \o scout(2) \o captures(1) \o captures(2)
                 \o << Trig(boar_dead_name, FALSE, FALSE,
                            [b \in 1..TemplateBoars |-> CondDestroyObj(b)], <<>>) >>,
                 rts.blocks
                 \o <<Act(n.begin, <<n.p1_wins, n.p2_wins, boar_dead_name>>)>>
                 \o scout_blocks(1) \o scout_blocks(2)
                 \o capture_blocks(1) \o capture_blocks(2)
                 \o << Deact(n.p1_wins, <<n.p2_wins, boar_dead_name>>),
                       Deact(n.p2_wins, <<n.p1_wins, boar_dead_name>>),
                       Deact(boar_dead_name, <<n.p1_wins, n.p2_wins>>),
                       Act(boar_dead_name, <<n.cleanup>>) >>)

\* Letters of the flags found in the Tower Battlefield template.
FlagLetters == SubSeq(<<"A", "B", "C", "D">>, 1, TemplateTowerFlags)

tb_hold_flag_name(index, player, flag) ==
    "[R" \o ToString(index) \o "] Player " \o ToString(player) \o " Holds Flag " \o flag

tb_defeated_name(index, player, enemy_points) ==
    "[R" \o ToString(index) \o "] Player " \o ToString(player) \o " Defeated with "
        \o ToString(enemy_points) \o " P2 Points Scored"

\* A full award whatever the enemy has scored.
remaining_points_full(enemy_points) == MAX_POINTS

\* What the enemy of a defeated player still lacks of the round's points.
remaining_points(enemy_points) == MAX_POINTS - enemy_points

\* ScnData._add_tower_battlefield
AddTowerBattlefield(d, index) ==
    LET rts == WithUnits(RoundTriggers(d, index),
                         TemplateOf("town_center", TemplateUnits),
                         TemplateOf("town_center", TemplateUnits))
        n == TriggerNames(index)
        prefix == Prefix(index)
        bp(p) == d.var_ids[IF p = 1 THEN "p1-battlefield-points"
                           ELSE "p2-battlefield-points"]
        hold(player) ==
            [f \in 1..Len(FlagLetters) |->
                Trig(tb_hold_flag_name(index, player, FlagLetters[f]), FALSE, TRUE,
                     << CondTimer(TOWER_AWARD_TIME),
                        CondVariable(bp(1), VarValComp.less, MAX_POINTS, FALSE),
                        CondVariable(bp(2), VarValComp.less, MAX_POINTS, FALSE) >>,
                     EffectScore(d, player, TOWER_AWARD_POINTS)
                        \o <<EffectChangeVariable(bp(player), ChangeVarOp.add,
                                                  TOWER_AWARD_POINTS)>>)]
        add_points_names == TrigNames(hold(1) \o hold(2))
        scoring_name(i, j, flag) ==
            prefix \o " Capture Flag " \o flag \o " with Score "
                \o ToString(i) \o "-" \o ToString(j)
        \* all (i, j, flag) in loop order
        scores == Flatten(Flatten(
            [i1 \in 1..(TOWER_MAX_NUM + 1) |->
                [j1 \in 1..(TOWER_MAX_NUM + 1) |->
                    [f \in 1..Len(FlagLetters) |-> <<i1 - 1, j1 - 1, FlagLetters[f]>>]]]))
        scoring(s) ==
            LET i == s[1]
                j == s[2]
                flag == s[3]
                towers == "watch_tower at flag " \o flag
            IN  Trig(scoring_name(i, j, flag), FALSE, TRUE,
                     << CondObjects(towers, 1, i + 1, TRUE),
                        CondObjects(towers, 1, i, FALSE),
                        CondObjects(towers, 2, j + 1, TRUE),
                        CondObjects(towers, 2, j, FALSE),
                        CondObjects("flag " \o flag,
                                    IF i < j THEN 2 ELSE IF i = j THEN 0 ELSE 1,
                                    1, TRUE) >>,
                     <<>>)
        scoring_blocks(s) ==
            LET i == s[1]
                j == s[2]
                name == scoring_name(i, j, s[3])
                h1 == tb_hold_flag_name(index, 1, s[3])
                h2 == tb_hold_flag_name(index, 2, s[3])
            IN  <<Act(n.begin, <<name>>)>> \o
                (IF i < j THEN <<Deact(name, <<h1>>), Act(name, <<h2>>)>>
                 ELSE IF i = j THEN <<Deact(name, <<h1, h2>>)>>
                 ELSE <<Act(name, <<h1>>), Deact(name, <<h2>>)>>)
        scoring_trigger_names == [k \in 1..Len(scores) |->
                                     scoring_name(scores[k][1], scores[k][2], scores[k][3])]
        pairs == Flatten([p \in 1..2 |-> [k \in 1..MAX_POINTS |-> <<p, k - 1>>]])
        defeated(pk) ==
            LET p == pk[1]
                enemy_points == pk[2]
                building(b) == CondObjects(b, p, 1, TRUE)
            IN  Trig(tb_defeated_name(index, p, enemy_points), FALSE, FALSE,
                     << CondPop0(p),
                        building("archery_range"), building("barracks"),
                        building("stable"), building("town_center"),
                        building("watch_tower"),
                        CondVariable(bp(other_player(p)), VarValComp.equal,
                                     enemy_points, FALSE) >>,
                     <<EffectChangeVariable(bp(other_player(p)), ChangeVarOp.add,
                                            remaining_points(enemy_points))>>
                        \o EffectScore(d, other_player(p), remaining_points(enemy_points)))
        \* the "other such triggers" one defeated trigger deactivates
        others(pk) ==
            LET sel == SelectSeq(pairs, LAMBDA q : pk[1] # q[1] /\ pk[2] # q[2])
            IN  [k \in 1..Len(sel) |-> tb_defeated_name(index, sel[k][1], sel[k][2])]
        defeated_blocks(pk) ==
            LET name == tb_defeated_name(index, pk[1], pk[2])
            IN  << Act(n.begin, <<name>>),
                   Deact(n.p1_wins, <<name>>),
                   Deact(n.p2_wins, <<name>>),
                   Deact(name, add_points_names \o scoring_trigger_names \o others(pk)) >>
        bp_full(p) == <<CondVariable(bp(p), VarValComp.equal, MAX_POINTS, FALSE)>>
    IN  IF index = 0 THEN OutRaise("AssertionError")
        ELSE Out(<< rts.init, rts.begin,
                    WithConds(rts.p1_wins, bp_full(1)),
                    WithConds(rts.p2_wins, bp_full(2)),
                    rts.cleanup, rts.inc >>
                 \o hold(1) \o hold(2)
                 \o [k \in 1..Len(scores) |-> scoring(scores[k])]
                 \o [k \in 1..Len(pairs) |-> defeated(pairs[k])],
                 rts.blocks
                 \o Flatten([k \in 1..Len(add_points_names) |->
                        << Deact(n.p1_wins, <<add_points_names[k]>>),
                           Deact(n.p2_wins, <<add_points_names[k]>>) >>])
                 \o Flatten([k \in 1..Len(scores) |-> scoring_blocks(scores[k])])
                 \o Flatten([k \in 1..Len(pairs) |-> defeated_blocks(pairs[k])])
                 \o << Act(n.begin, <<n.p1_wins>>),
                       Deact(n.p1_wins, scoring_trigger_names),
                       Act(n.begin, <<n.p2_wins>>),
                       Deact(n.p2_wins, scoring_trigger_names) >>)
-----------------------------------------------------------------------------
(* Minigames: Galley Micro, Xbow Timer, Capture the Relic.                 *)

\* One disabled trigger per unit of a player: fires when fewer than k + 1 of
\* the listed unit types remain and awards pts to a player.
UnitPoints(d, name, types, p, k, to, pts) ==
    Trig(name, FALSE, FALSE,
         [t \in 1..Len(types) |-> CondObjects(types[t], p, k + 1, TRUE)],
         EffectScore(d, to, pts))

\* ScnData._add_galley_micro
AddGalleyMicro(d, index) ==
    LET rts == WithUnits(RoundTriggers(d, index),
                         TemplateOf("galley", TemplateGalleys),
                         TemplateOf("galley", TemplateGalleys))
        n == TriggerNames(index)
        ngalleys == TemplateGalleys
        pts(p) == [k \in 1..ngalleys |->
                      UnitPoints(d, Prefix(index) \o " P" \o ToString(p) \o " Galley "
                                        \o ToString(k - 1),
                                 <<"galley">>, p, k - 1, other_player(p),
                                 MAX_POINTS \div ngalleys)]
        win(p) == IF p = 1 THEN n.p1_wins ELSE n.p2_wins
        pts_blocks(p) ==
            Flatten([k \in 1..ngalleys |->
                << Act(n.begin, <<pts(p)[k].name>>), Deact(win(p), <<pts(p)[k].name>>) >>])
    IN  IF index = 0 THEN OutRaise("AssertionError")
        ELSE Out(<< rts.init, rts.begin,
                    WithConds(rts.p1_wins, <<CondPop0(2)>>),
                    WithConds(rts.p2_wins, <<CondPop0(1)>>),
                    rts.cleanup, rts.inc >> \o pts(1) \o pts(2),
                 rts.blocks
                 \o <<Act(n.begin, <<n.p1_wins, n.p2_wins>>)>>
                 \o pts_blocks(1) \o pts_blocks(2)
                 \o << Deact(n.p1_wins, <<n.p2_wins>>), Deact(n.p2_wins, <<n.p1_wins>>) >>)

\* ScnData._add_xbow_timer: two sub-rounds; the round's own win triggers
\* decide the second one.
AddXbowTimer(d, index) ==
    LET rts == WithUnits(RoundTriggers(d, index),
                         TemplateOf("archer", TemplateArchers),
                         TemplateOf("skirmisher", TemplateSkirms))
        n == TriggerNames(index)
        prefix == Prefix(index)
        cleanup1_name == prefix \o " Xbow Timer Cleanup Round 1"
        init2_name == prefix \o " Xbow Timer Init Round 2"
        begin2_name == prefix \o " Xbow Timer Begin Round 2"
        p1_r1_win_name == prefix \o " Xbow Timer Player 1 Wins Round 1"
        p2_r1_win_name == prefix \o " Xbow Timer Player 2 Wins Round 1"
        res_xbow_1_name == prefix \o " Xbow Timer Research Player 1"
        res_xbow_2_name == prefix \o " Xbow Timer Research Player 2"
        archers == TemplateArchers
        skirms == TemplateSkirms
        half == MAX_POINTS \div 2
        bows == <<"archer", "crossbowman">>
        unit(p, what, k) == prefix \o " P" \o ToString(p) \o " " \o what \o " " \o ToString(k)
        p1_archers == [k \in 1..archers |->
            UnitPoints(d, unit(1, "Archer", k - 1), bows, 1, k - 1, 2, 1)]
        p2_skirms == [k \in 1..skirms |->
            UnitPoints(d, unit(2, "Skirm", k - 1), <<"skirmisher">>, 2, k - 1, 1, 1)]
        p2_archers == [k \in 1..archers |->
            UnitPoints(d, unit(2, "Archer", k - 1), bows, 2, k - 1, 1, 1)]
        p1_skirms == [k \in 1..skirms |->
            UnitPoints(d, unit(1, "Skirm", k - 1), <<"skirmisher">>, 1, k - 1, 2, 1)]
        each(ts, from, win) ==
            Flatten([k \in 1..Len(ts) |->
                << Act(from, <<ts[k].name>>), Deact(win, <<ts[k].name>>) >>])
    IN  IF index = 0 THEN OutRaise("AssertionError")
        ELSE Out(<< rts.init, rts.begin,
                    WithEffects(WithConds(rts.p1_wins, <<CondPop0(2)>>),
                                EffectP1Score(d, half - archers)),
                    WithEffects(WithConds(rts.p2_wins, <<CondPop0(1)>>),
                                EffectP2Score(d, half - skirms)),
                    rts.cleanup, rts.inc,
                    Trig(res_xbow_1_name, FALSE, FALSE, <<CondTimer(60)>>, <<>>),
                    Trig(cleanup1_name, FALSE, FALSE, <<CondTimer(DELAY_CLEANUP)>>, <<>>),
                    Trig(init2_name, FALSE, FALSE, <<CondTimer(DELAY_ROUND_AFTER)>>,
                         UnitInitEffects(2, TemplateOf("archer", TemplateArchers))
                            \o UnitInitEffects(1, TemplateOf("skirmisher", TemplateSkirms))),
                    Trig(begin2_name, FALSE, FALSE, <<CondTimer(DELAY_ROUND_BEFORE)>>,
                         UnitBeginEffects(2, TemplateOf("archer", TemplateArchers))
                            \o UnitBeginEffects(1, TemplateOf("skirmisher", TemplateSkirms))),
                    Trig(p1_r1_win_name, FALSE, FALSE, <<CondPop0(2)>>,
                         EffectP1Score(d, half - skirms)),
                    Trig(p2_r1_win_name, FALSE, FALSE, <<CondPop0(1)>>,
                         EffectP2Score(d, half - archers)) >>
                 \o p1_archers \o p2_skirms \o p2_archers \o p1_skirms
                 \o << Trig(res_xbow_2_name, FALSE, FALSE, <<CondTimer(60)>>, <<>>) >>,
                 rts.blocks
                 \o << Act(n.begin, <<res_xbow_1_name>>),
                       Act(cleanup1_name, <<init2_name>>),
                       Act(init2_name, <<begin2_name>>),
                       Act(begin2_name, <<n.p1_wins, n.p2_wins>>),
                       Act(n.begin, <<p1_r1_win_name>>),
                       Deact(p2_r1_win_name, <<p1_r1_win_name>>),
                       Act(p1_r1_win_name, <<cleanup1_name>>),
                       Deact(p1_r1_win_name, <<res_xbow_1_name>>),
                       Act(n.begin, <<p2_r1_win_name>>),
                       Deact(p1_r1_win_name, <<p2_r1_win_name>>),
                       Act(p2_r1_win_name, <<cleanup1_name>>),
                       Deact(p2_r1_win_name, <<res_xbow_1_name>>) >>
                 \o each(p1_archers, n.begin, p1_r1_win_name)
                 \o each(p2_skirms, n.begin, p2_r1_win_name)
                 \o each(p2_archers, begin2_name, n.p2_wins)
                 \o each(p1_skirms, begin2_name, n.p1_wins)
                 \o << Act(begin2_name, <<res_xbow_2_name>>),
                       Deact(n.p1_wins, <<n.p2_wins, res_xbow_2_name>>),
                       Deact(n.p2_wins, <<n.p1_wins, res_xbow_2_name>>) >>)

\* The resource number of captured relics.
ACC_ATTR_RELICS == 7

\* accumulate_attribute on the number of relics a player holds.
CondRelics(player, amount) ==
    [type |-> "accumulate_attribute", player |-> player, amount_or_quantity |-> amount,
     resource_type_or_tribute_list |-> ACC_ATTR_RELICS, inverted |-> FALSE]

\* Where Create Relics puts the relics of a sub-round.
RELIC_POSITIONS == {<<28, 125>>, <<35, 132>>, <<48, 112>>}

\* A last sub-round that ends one relic early.
ROUND_RELICS_EARLY == <<3, 6, 8>>

\* ROUND_RELICS: relics captured in total when sub-round r ends.
ROUND_RELICS == <<3, 6, 9>>

\* ScnData._add_ctr
AddCtr(d, index) ==
    LET rts == WithUnits(RoundTriggers(d, index),
                         TemplateOf("monastery", TemplateUnits),
                         TemplateOf("monastery", TemplateUnits))
        n == TriggerNames(index)
        prefix == Prefix(index)
        begin2_name == prefix \o " Capture the Relic Begin Round 2"
        begin3_name == prefix \o " Capture the Relic Begin Round 3"
        create_relics_name == prefix \o " Capture the Relic Create Relics"
        round_cleanup_name == prefix \o " Capture the Relic Round Cleanup"
        cond_names(r) ==
            [i1 \in 1..(ROUND_RELICS[r] + 1) |->
                prefix \o " Capture the Relic " \o ToString(i1 - 1) \o "-"
                    \o ToString(ROUND_RELICS[r] - (i1 - 1))]
        conds(i, j) ==
            (IF i # 0 THEN <<CondRelics(1, i)>> ELSE <<>>)
                \o (IF j # 0 THEN <<CondRelics(2, j)>> ELSE <<>>)
        relics(r) ==
            [i1 \in 1..(ROUND_RELICS[r] + 1) |->
                LET i == i1 - 1
                    j == ROUND_RELICS[r] - i
                IN  Trig(cond_names(r)[i1], FALSE, FALSE, conds(i, j),
                         IF r < 3 THEN <<>>
                         ELSE (IF i > j THEN EffectP1Score(d, 10) ELSE EffectP2Score(d, 10))
                                 \o EffectP1Score(d, i * 10) \o EffectP2Score(d, j * 10))]
        siblings(r, name) == SelectSeq(cond_names(r), LAMBDA c : c # name)
        relic_blocks(r, from, next) ==
            Flatten([i1 \in 1..(ROUND_RELICS[r] + 1) |->
                LET name == cond_names(r)[i1]
                    i == i1 - 1
                    j == ROUND_RELICS[r] - i
                IN  <<Act(from, <<name>>)>>
                    \o (IF r < 3 THEN <<>>
                        ELSE <<Act(name, <<IF i > j THEN n.p1_wins ELSE n.p2_wins>>)>>)
                    \o << Deact(name, siblings(r, name)),
                          Act(name, <<round_cleanup_name>> \o next) >>])
        lose_name(p) == prefix \o " P" \o ToString(p) \o " Loses Monasteries"
        lose(p) == Trig(lose_name(p), FALSE, FALSE,
                        <<CondObjects("monastery", p, 1, TRUE)>>,
                        IF p = 1 THEN EffectP2Score(d, 100) ELSE EffectP1Score(d, 100))
        lose_blocks(p) ==
            << Act(n.begin, <<lose_name(p)>>),
               Act(lose_name(p), <<n.cleanup>>),
               Deact(n.p1_wins, <<lose_name(p)>>),
               Deact(n.p2_wins, <<lose_name(p)>>),
               Deact(lose_name(p), <<lose_name(other_player(p))>>
                        \o cond_names(1) \o cond_names(2) \o cond_names(3)) >>
    IN  IF index = 0 THEN OutRaise("AssertionError")
        ELSE Out(RoundSix(rts)
                 \o << Trig(begin2_name, FALSE, FALSE, <<CondTimer(3)>>, <<>>),
                       Trig(begin3_name, FALSE, FALSE, <<CondTimer(3)>>, <<>>),
                       Trig(create_relics_name, FALSE, TRUE, <<>>, <<>>),
                       Trig(round_cleanup_name, FALSE, TRUE, <<>>, <<>>) >>
                 \o relics(1) \o relics(2) \o relics(3)
                 \o <<lose(1), lose(2)>>,
                 rts.blocks
                 \o << Deact(create_relics_name, <<create_relics_name>>),
                       Act(n.begin, <<create_relics_name>>),
                       Act(begin2_name, <<create_relics_name>>),
                       Act(begin3_name, <<create_relics_name>>),
                       Deact(round_cleanup_name, <<round_cleanup_name>>) >>
                 \o relic_blocks(1, n.begin, <<begin2_name>>)
                 \o relic_blocks(2, begin2_name, <<begin3_name>>)
                 \o relic_blocks(3, begin3_name, <<>>)
                 \o lose_blocks(1) \o lose_blocks(2))
-----------------------------------------------------------------------------
(* Minigames: DauT Castle, Castle Siege, Regicide.                         *)

\* ScnData._add_daut_castle
AddDautCastle(d, index) ==
    LET rts == WithUnits(RoundTriggers(d, index),
                         TemplateOf("villager", TemplateUnits),
                         TemplateOf("villager", TemplateUnits))
        n == TriggerNames(index)
        prefix == Prefix(index)
        p1_wins_name == prefix \o " Player 1 Wins Round"
        p1_builds_castle_name == prefix \o " Player 1 Constructs Castle"
        p1_loses_army_name == prefix \o " Player 1 Loses Army"
        p2_wins_name == prefix \o " Player 2 Wins Round"
        p2_builds_castle_name == prefix \o " Player 2 Constructs Castle"
        p2_loses_army_name == prefix \o " Player 2 Loses Army"
        builds(name, p, var) ==
            Trig(name, FALSE, FALSE, <<CondObjects("castle", p, 1, FALSE)>>,
                 <<EffectChangeVariable(d.var_ids[var], ChangeVarOp.set_op, 1)>>)
        loses(name, p) == Trig(name, FALSE, FALSE, <<CondPop0(p)>>, <<>>)
        decide(name, win, off) ==
            << Act(n.begin, <<name>>), Act(name, <<win>>), Deact(name, off) >>
    IN  IF index = 0 THEN OutRaise("AssertionError")
        ELSE Out(<< rts.init, rts.begin,
                    WithEffects(rts.p1_wins, EffectP1Score(d, MAX_POINTS)),
                    WithEffects(rts.p2_wins, EffectP2Score(d, MAX_POINTS)),
                    rts.cleanup, rts.inc,
                    builds(p1_builds_castle_name, 1, "p1-castle-constructed"),
                    loses(p2_loses_army_name, 2),
                    builds(p2_builds_castle_name, 2, "p2-castle-constructed"),
                    loses(p1_loses_army_name, 1) >>,
                 rts.blocks
                 \o decide(p1_builds_castle_name, p1_wins_name,
                      <<p1_loses_army_name, p2_builds_castle_name, p2_loses_army_name>>)
                 \o decide(p2_loses_army_name, p1_wins_name,
                      <<p1_builds_castle_name, p1_loses_army_name, p2_builds_castle_name>>)
                 \o decide(p2_builds_castle_name, p2_wins_name,
                      <<p2_loses_army_name, p1_builds_castle_name, p1_loses_army_name>>)
                 \o decide(p1_loses_army_name, p2_wins_name,
                      <<p2_builds_castle_name, p2_loses_army_name, p1_builds_castle_name>>))

\* ScnData._add_castle_siege
AddCastleSiege(d, index) ==
    LET rts == WithUnits(RoundTriggers(d, index),
                         TemplateOf("castle", TemplateUnits),
                         TemplateOf("castle", TemplateUnits))
        n == TriggerNames(index)
        prefix == Prefix(index)
        p1_loses_castle_name == prefix \o " Player 1 Loses Castle"
        p1_loses_army_name == prefix \o " Player 1 Loses Army"
        p2_loses_castle_name == prefix \o " Player 2 Loses Castle"
        p2_loses_army_name == prefix \o " Player 2 Loses Army"
        no_castle(name, p, var) ==
            Trig(name, FALSE, FALSE, <<CondObjects("castle", p, 1, TRUE)>>,
                 <<EffectChangeVariable(d.var_ids[var], ChangeVarOp.set_op, 1)>>)
        loses(name, p) == Trig(name, FALSE, FALSE, <<CondPop0(p)>>, <<>>)
        decide(name, win, off) ==
            << Act(n.begin, <<name>>), Act(name, <<win>>), Deact(name, off) >>
    IN  IF index = 0 THEN OutRaise("AssertionError")
        ELSE Out(<< rts.init, rts.begin,
                    WithEffects(rts.p1_wins, EffectP1Score(d, MAX_POINTS)),
                    WithEffects(rts.p2_wins, EffectP2Score(d, MAX_POINTS)),
                    rts.cleanup, rts.inc,
                    no_castle(p2_loses_castle_name, 2, "p2-castle-destroyed"),
                    loses(p2_loses_army_name, 2),
                    no_castle(p1_loses_castle_name, 1, "p1-castle-destroyed"),
                    loses(p1_loses_army_name, 1) >>,
                 rts.blocks
                 \o decide(p2_loses_castle_name, n.p1_wins,
                      <<p2_loses_army_name, p1_loses_castle_name, p1_loses_army_name>>)
                 \o decide(p2_loses_army_name, n.p1_wins,
                      <<p1_loses_castle_name, p1_loses_army_name, p2_loses_castle_name>>)
                 \o decide(p1_loses_castle_name, n.p2_wins,
                      <<p1_loses_army_name, p2_loses_castle_name, p2_loses_army_name>>)
                 \o decide(p1_loses_army_name, n.p2_wins,
                      <<p2_loses_castle_name, p2_loses_army_name, p1_loses_castle_name>>))

\* ScnData._add_regicide
AddRegicide(d, index) ==
    LET rts == WithUnits(RoundTriggers(d, index),
                         TemplateOf(d.regicide_hero, TemplateKings),
                         TemplateOf(d.regicide_hero, TemplateKings))
        n == TriggerNames(index)
        prefix == Prefix(index)
        stalemate_name == prefix \o " Regicide Stalemate"
        king == d.regicide_hero = "king"
        win(p) == IF p = 1 THEN n.p1_wins ELSE n.p2_wins
        killed(p) == IF p = 1 THEN "p1-hero-killed" ELSE "p2-hero-killed"
        kill_hero(p) ==
            [u \in 1..TemplateKings |->
                Trig(prefix \o " Player " \o ToString(p) \o "'s Hero Killed", FALSE, FALSE,
                     <<CondObjects(d.regicide_hero, p, 1, TRUE)>>,
                     <<EffectChangeVariable(d.var_ids[killed(p)], ChangeVarOp.add, 1)>>)]
        pop_under(p) ==
            [k1 \in 1..100 |->
                Trig(prefix \o " Regicide P" \o ToString(p) \o " Pop Under "
                        \o ToString(k1 - 1),
                     FALSE, FALSE, <<CondPop(p, k1, TRUE)>>,
                     EffectScore(d, other_player(p), 1))]
        player_blocks(p) ==
            Flatten([u \in 1..TemplateKings |->
                << Act(n.begin, <<kill_hero(p)[u].name>>),
                   Deact(n.cleanup, <<kill_hero(p)[u].name>>) >>])
            \o Flatten([k1 \in 1..100 |->
                << Act(n.begin, <<pop_under(p)[k1].name>>),
                   Deact(n.cleanup, <<pop_under(p)[k1].name>>) >>
                \o (IF king THEN <<Deact(stalemate_name, <<pop_under(p)[k1].name>>)>>
                    ELSE <<>>)
                \o <<Deact(win(p), <<pop_under(p)[k1].name>>)>>])
    IN  IF index = 0 THEN OutRaise("AssertionError")
        ELSE Out(<< rts.init, rts.begin,
                    WithConds(rts.p1_wins, <<CondPop0(2)>>),
                    WithConds(rts.p2_wins, <<CondPop0(1)>>),
                    rts.cleanup, rts.inc >>
                 \o kill_hero(1) \o pop_under(1) \o kill_hero(2) \o pop_under(2)
                 \o (IF king
                     THEN << Trig(stalemate_name, FALSE, FALSE,
                                  << CondPop(1, 1, FALSE), CondPop(1, 2, TRUE),
                                     CondPop(2, 1, FALSE), CondPop(2, 2, TRUE) >>,
                                  <<>>) >>
                     ELSE <<>>),
                 rts.blocks
                 \o player_blocks(1) \o player_blocks(2)
                 \o (IF king
                     THEN << Act(n.begin, <<stalemate_name>>),
                             Act(stalemate_name, <<n.cleanup>>),
                             Deact(stalemate_name, <<n.p1_wins, n.p2_wins>>),
                             Deact(n.p1_wins, <<stalemate_name>>),
                             Deact(n.p2_wins, <<stalemate_name>>) >>
                     ELSE <<>>)
                 \o << Act(n.begin, <<n.p1_wins>>),
                       Deact(n.p1_wins, <<n.p2_wins>>),
                       Act(n.begin, <<n.p2_wins>>),
                       Deact(n.p2_wins, <<n.p1_wins>>) >>)

\* ScnData._add_minigame
AddMinigame(d, index) ==
    LET name == d.events[index + 1].name
    IN  CASE name = "Steal the Bacon" -> AddStealTheBacon(d, index)
          [] name = "Tower Battlefield" -> AddTowerBattlefield(d, index)
          [] name = "Galley Micro" -> AddGalleyMicro(d, index)
          [] name = "Xbow Timer" -> AddXbowTimer(d, index)
          [] name = "Capture the Relic" -> AddCtr(d, index)
          [] name = "DauT Castle" -> AddDautCastle(d, index)
          [] name = "Castle Siege" -> AddCastleSiege(d, index)
          [] name = "Regicide" -> AddRegicide(d, index)
          [] OTHER -> OutRaise("AssertionError")

\* A loop of _setup_rounds that passes over a minigame at index 0.
SetupRoundSkipsFirstMinigame(d, index) ==
    LET e == d.events[index + 1]
        out == IF IsMinigame(e)
               THEN (IF index = 0 THEN Out(<<>>, <<>>) ELSE AddMinigame(d, index))
               ELSE AddFight(d, index)
        header == IF IsMinigame(e) THEN "Minigame " \o ToString(index)
                  ELSE IF index # 0 THEN "Fight " \o ToString(index) ELSE "Tiebreaker"
    IN  [out EXCEPT !.triggers = <<Header(header)>> \o @]

\* One iteration of the loop of ScnData._setup_rounds.
SetupRound(d, index) ==
    LET e == d.events[index + 1]
        out == IF IsMinigame(e) THEN AddMinigame(d, index) ELSE AddFight(d, index)
        header == IF IsMinigame(e) THEN "Minigame " \o ToString(index)
                  ELSE IF index # 0 THEN "Fight " \o ToString(index) ELSE "Tiebreaker"
    IN  [out EXCEPT !.triggers = <<Header(header)>> \o @]
-----------------------------------------------------------------------------
(* SpecBuild: setup_scenario on every event list of the bounded input.     *)

\* The fight of the input: FightUnits archers against a skirmisher and
\* archers.
TheFight ==
    MakeFight([archer |-> 10, skirmisher |-> 5],
              [k \in 1..FightUnits |-> "archer"],
              <<"skirmisher">> \o [k \in 1..(FightUnits - 1) |-> "archer"])

\* load_fight_data makes a Minigame of whatever name a line holds: the input
\* has one name that no compiler of the builder knows.
UnregisteredName == "King of the Hill"

EventChoices ==
    {TheFight, Minigame(UnregisteredName)}
        \cup {Minigame(MINIGAME_NAMES[i]) : i \in 1..Len(MINIGAME_NAMES)}

\* The tiebreaker slot holds a fight, or a minigame: every minigame compiler
\* rejects index 0, whichever minigame it is.
TiebreakerChoices ==
    {TheFight, Minigame(UnregisteredName)}
        \cup {Minigame(MINIGAME_NAMES[i]) : i \in 1..Len(MINIGAME_NAMES)}

\* Event lists: the tiebreaker slot followed by up to MaxRounds rounds.
EventLists ==
    {<<t>> \o rounds : t \in TiebreakerChoices,
                       rounds \in UNION {[1..len -> EventChoices] : len \in 0..MaxRounds}}

HasRegicide(events) == \E i \in 1..Len(events) : events[i] = Minigame("Regicide")

InitBuild ==
    /\ \E events \in EventLists, var_count \in 0..TemplateVars,
          hero \in {"king", "genghis_khan"} :
            /\ hero = "king" \/ HasRegicide(events)
            /\ scn = NewScnData(events, var_count, hero)
    /\ hash_seed \in 0..(BuildSeeds - 1)
    /\ pc = "start"
    /\ passes = 0
    /\ declared = <<>>
    /\ game = NoGame
    /\ fight = NoFight
    /\ cli = NoCli
    /\ call = NoCall
    /\ research = NoResearch

\* self._name_variables()
StepNameVariables ==
    /\ pc = "start"
    /\ scn' = NameVariables(scn)
    /\ pc' = "named"
    /\ UNCHANGED <<hash_seed, passes, declared, game, fight, cli, call, research>>

\* self._add_initial_triggers()
StepAddInitialTriggers ==
    /\ pc = "named"
    /\ scn' = [Apply(scn, InitialTriggers(scn)) EXCEPT
                  !.round_objectives = ObjectiveNames(scn)]
    /\ pc' = IF scn'.raised = "none" THEN "rounds" ELSE "aborted"
    /\ UNCHANGED <<hash_seed, passes, declared, game, fight, cli, call, research>>

\* self._setup_rounds(), one event per step
StepSetupRound ==
    /\ pc = "rounds"
    /\ scn.next_round < Len(scn.events)
    /\ scn' = [Apply(scn, SetupRound(scn, scn.next_round)) EXCEPT !.next_round = @ + 1]
    /\ pc' = IF scn'.raised = "none" THEN "rounds" ELSE "aborted"
    /\ UNCHANGED <<hash_seed, passes, declared, game, fight, cli, call, research>>

\* self._add_activate_and_deactivate_effects()
StepResolve ==
    /\ pc = "rounds"
    /\ scn.next_round = Len(scn.events)
    /\ scn' = Resolve(scn, hash_seed)
    /\ pc' = IF scn'.raised = "none" THEN "resolved" ELSE "aborted"
    /\ passes' = IF scn'.raised = "none" THEN passes + 1 ELSE passes
    /\ UNCHANGED <<hash_seed, declared, game, fight, cli, call, research>>

NextBuild ==
    \/ StepNameVariables
    \/ StepAddInitialTriggers
    \/ StepSetupRound
    \/ StepResolve

SpecBuild == InitBuild /\ [][NextBuild]_vars
-----------------------------------------------------------------------------
(* The game engine running an emitted scenario.  The engine is not part of *)
(* the repository: it is modelled from the description of its trigger      *)
(* system.  One polling loop visits the triggers; an enabled trigger whose *)
(* conditions all hold fires, its whole effect list runs atomically, and a *)
(* trigger that does not loop is disabled once it has fired.  The order of *)
(* the visit is not controlled by the program.                             *)

RECURSIVE SetupRounds(_, _)
\* ScnData._setup_rounds: every event of the list in turn.
SetupRounds(d, index) ==
    IF index >= Len(d.events) \/ d.raised # "none" THEN d
    ELSE SetupRounds(Apply(d, SetupRound(d, index)), index + 1)

\* ScnData.setup_scenario as one call, with no template variable, the
\* default hero and hash seed 0.
SetupScenario(events) ==
    LET named == NameVariables(NewScnData(events, 0, "king"))
        initial == [Apply(named, InitialTriggers(named)) EXCEPT
                       !.round_objectives = ObjectiveNames(named)]
        rounds == IF initial.raised = "none" THEN SetupRounds(initial, 0) ELSE initial
    IN  IF rounds.raised = "none" THEN Resolve(rounds, 0) ELSE rounds

\* The kinds of round, the fight first.
GameEvents ==
    <<TheFight>> \o [i \in 1..Len(MINIGAME_NAMES) |-> Minigame(MINIGAME_NAMES[i])]

\* The event lists that are played: the tiebreaker alone, the tiebreaker and
\* one round of every kind, and DauT Castle followed by a second round.
GameLists ==
    << <<TheFight>> >>
    \o [i \in 1..Len(GameEvents) |-> <<TheFight, GameEvents[i]>>]
    \o << <<TheFight, Minigame("DauT Castle"), TheFight>>,
          <<TheFight, Minigame("DauT Castle"), Minigame("Castle Siege")>> >>

\* Conditions the model leaves to the players: what stands where, what has
\* been destroyed, how many relics are held.
IsFree(c) ==
    \/ c.type \in {"object_in_area", "destroy_object"}
    \/ /\ c.type = "accumulate_attribute"
       /\ c.resource_type_or_tribute_list # ACC_ATTR_POP_HEADROOM

IsTimer(c) == c.type = "timer"

IsPop(c) ==
    /\ c.type = "accumulate_attribute"
    /\ c.resource_type_or_tribute_list = ACC_ATTR_POP_HEADROOM

HasCondition(t, P(_)) == \E j \in 1..Len(t.conditions) : P(t.conditions[j])

\* The effects that change what the engine model keeps.
IsEngineEffect(e) ==
    e.type \in {"activate_trigger", "deactivate_trigger", "change_variable",
                "declare_victory", "change_ownership", "create_object", "remove_object"}

\* The round and the part a trigger name plays in it, <<-1, "none">> for a
\* trigger that is not one of a round's six.
RoundRole(last, name) ==
    LET hits == {h \in (0..last) \X {"init", "begin", "p1_wins", "p2_wins",
                                           "cleanup", "inc"} :
                    TriggerNames(h[1])[h[2]] = name}
    IN  IF hits = {} THEN <<-1, "none">> ELSE CHOOSE h \in hits : TRUE

\* The round whose section of the trigger list holds position i, -1 before the
\* tiebreaker's section: a round's section starts at its Initialize trigger.
RoundOf(d, i) ==
    LET hits == {r \in 0..(Len(d.events) - 1) :
                    \E h \in 1..i : d.triggers[h].name = TriggerNames(r).init}
    IN  IF hits = {} THEN -1 ELSE CHOOSE r \in hits : \A q \in hits : q <= r

\* Triggers outside the rounds whose firing is recorded.
RecordedNames == {"[I] Initialize Start Timer", "[V] Rounds Completed", "[V] Check Tie",
                  "[V] Check Not Tie"}

\* The player whose unit the trigger at position i values, 0 for a trigger
\* that is not a per-unit point trigger: those are the triggers of a fight
\* that wait for fewer than k of a player's units of one kind to stand in the
\* fight area.
UnitOwner(d, i) ==
    LET t == d.triggers[i]
        r == RoundOf(d, i)
    IN  IF /\ r >= 0
           /\ IsFight(d.events[r + 1])
           /\ RoundRole(Len(d.events) - 1, t.name)[2] = "none"
           /\ Len(t.conditions) = 1
           /\ t.conditions[1].type = "object_in_area"
           /\ t.conditions[1].inverted
        THEN t.conditions[1].player ELSE 0

\* What the engine keeps of an emitted scenario.
Loaded(d) ==
    [raised |-> d.raised,
     num_rounds |-> Len(d.events) - 1,
     triggers |-> [i \in 1..Len(d.triggers) |->
                      [enabled |-> d.triggers[i].enabled,
                       looping |-> d.triggers[i].looping,
                       conditions |-> d.triggers[i].conditions,
                       effects |-> SelectSeq(d.triggers[i].effects, IsEngineEffect)]],
     roles |-> [i \in 1..Len(d.triggers) |->
                   RoundRole(Len(d.events) - 1, d.triggers[i].name)],
     rounds |-> [i \in 1..Len(d.triggers) |-> RoundOf(d, i)],
     free |-> {i \in 1..Len(d.triggers) : HasCondition(d.triggers[i], IsFree)},
     timed |-> {i \in 1..Len(d.triggers) : HasCondition(d.triggers[i], IsTimer)},
     paced |-> {i \in 1..Len(d.triggers) :
                   /\ d.triggers[i].looping
                   /\ HasCondition(d.triggers[i], IsFree) \/ HasCondition(d.triggers[i], IsTimer)},
     names |-> [i \in 1..Len(d.triggers) |-> d.triggers[i].name],
     kinds |-> [i \in 1..Len(d.events) |->
                   IF IsFight(d.events[i]) THEN "Fight" ELSE d.events[i].name],
     var_ids |-> d.var_ids,
     round_var |-> d.var_ids["round"],
     difference_var |-> d.var_ids["score-difference"],
     recorded |-> {i \in 1..Len(d.triggers) :
                      \/ RoundRole(Len(d.events) - 1, d.triggers[i].name)[2] # "none"
                      \/ d.triggers[i].name \in RecordedNames
                      \/ UnitOwner(d, i) # 0},
     unit_owner |-> [i \in 1..Len(d.triggers) |-> UnitOwner(d, i)],
     tiebreaker |-> {i \in 1..Len(d.triggers) :
                        /\ \E h \in 1..(i - 1) : d.triggers[h].name = "-- Tiebreaker --"
                        /\ \A h \in 1..i : d.triggers[h].name # TriggerNames(1).init},
     reads_pop |-> {i \in 1..Len(d.triggers) : HasCondition(d.triggers[i], IsPop)},
     objectives |-> [r \in 1..(Len(d.events) - 1) |->
                        {i \in 1..Len(d.triggers) :
                            \E k \in 1..Len(d.round_objectives[r + 1]) :
                                d.triggers[i].name = d.round_objectives[r + 1][k]}],
     relic_makers |-> {i \in 1..Len(d.triggers) :
                          \E r \in 1..(Len(d.events) - 1) :
                              d.triggers[i].name
                                  = Prefix(r) \o " Capture the Relic Create Relics"},
     num_vars |-> Cardinality(DOMAIN d.var_ids)]

\* The orders in which a polling loop may visit the triggers.
ScanOrders == {"asc", "desc"}

NoVictor == 0

\* The position of the trigger with a name, 0 if none.
NamedPosition(prog, name) ==
    LET hits == {i \in 1..Len(prog.names) : prog.names[i] = name}
    IN  IF hits = {} THEN 0 ELSE CHOOSE i \in hits : TRUE

\* The position of the trigger that plays a part in a round, 0 if none.
PositionOf(prog, r, role) ==
    LET hits == {i \in 1..Len(prog.roles) : prog.roles[i] = <<r, role>>}
    IN  IF hits = {} THEN 0 ELSE CHOOSE i \in hits : TRUE

Compare(comparison, v, a) ==
    CASE comparison = VarValComp.equal -> v = a
      [] comparison = VarValComp.less -> v < a
      [] comparison = VarValComp.larger -> v > a
      [] comparison = VarValComp.less_or_equal -> v <= a
      [] comparison = VarValComp.larger_or_equal -> v >= a

\* The objects that count towards a player's population.
UnitKinds == {"archer", "crossbowman", "skirmisher", "galley", "king", "genghis_khan"}

\* Whether the round of the trigger at position i is being played: its Begin
\* Round trigger has handed the players their objects and its Cleanup Round
\* trigger has not yet taken them away.  Triggers outside the rounds count
\* as played.
InPlay(g, i) == g.prog.rounds[i] = -1 \/ g.prog.rounds[i] \in g.live

\* A condition on the players' objects that the state settles: a player
\* with no population has fewer units of a kind than any positive number,
\* and a player owns nothing of a round that is not being played.
IsSettled(g, i, c) ==
    /\ c.type = "object_in_area"
    /\ c.inverted
    /\ c.player \in 1..2
    /\ c.amount_or_quantity >= 1
    /\ \/ c.object \in UnitKinds /\ g.pop[c.player] = 0
       \/ ~InPlay(g, i)

\* The relics of a game that does not count them: holding them is up to the
\* players.
NoRelics == <<>>

\* Whether condition c of the trigger at position i holds in state g.  What
\* stands where, what has been destroyed and how many relics are held is up
\* to the players while the round is being played.
Holds(g, i, c) ==
    CASE c.type = "variable_value" ->
            Compare(c.comparison, g.vals[c.variable], c.amount_or_quantity) # c.inverted
      [] c.type = "timer" -> i \in g.armed
      [] c.type = "player_defeated" -> FALSE
      [] c.type = "accumulate_attribute"
            /\ c.resource_type_or_tribute_list = ACC_ATTR_POP_HEADROOM ->
            (g.pop[c.player] >= c.amount_or_quantity) # c.inverted
      [] c.type = "accumulate_attribute"
            /\ c.resource_type_or_tribute_list = ACC_ATTR_RELICS
            /\ g.relics # NoRelics ->
            (g.relics.held[c.player] >= c.amount_or_quantity) # c.inverted
      [] OTHER -> IsSettled(g, i, c) \/ InPlay(g, i)

\* An enabled trigger all of whose conditions hold.  The looping triggers that
\* wait on the players or on a timer fire at most MaxLoopFirings times in a
\* game, all of them together.
Ready(g, i) ==
    LET t == g.prog.triggers[i]
    IN  /\ i \in g.enabled
        /\ \A j \in 1..Len(t.conditions) : Holds(g, i, t.conditions[j])
        /\ i \in g.prog.paced => g.loops < MaxLoopFirings

\* A ready trigger the loop cannot pass without firing it: none of its
\* conditions waits on a timer or is open to the players.
MustFire(g, i) ==
    LET t == g.prog.triggers[i]
    IN  /\ Ready(g, i)
        /\ i \notin g.prog.timed
        /\ i \in g.prog.free =>
              \A j \in 1..Len(t.conditions) :
                  IsFree(t.conditions[j]) => IsSettled(g, i, t.conditions[j])

\* The place of position i in the visit.
Rank(g, i) ==
    IF g.order = "asc" THEN i ELSE Len(g.prog.triggers) + 1 - i

ApplyOperation(operation, v, q) ==
    CASE operation = ChangeVarOp.set_op -> q
      [] operation = ChangeVarOp.add -> v + q
      [] operation = ChangeVarOp.subtract -> v - q
      [] operation = ChangeVarOp.multiply -> v * q
      [] operation = ChangeVarOp.divide -> v \div q

RECURSIVE RunChanges(_, _, _)
\* The change_variable effects of a list from the j-th on, in order.
RunChanges(vals, changes, j) ==
    IF j > Len(changes) THEN vals
    ELSE RunChanges([vals EXCEPT ![changes[j].from_variable] =
                        ApplyOperation(changes[j].operation, @, changes[j].quantity)],
                    changes, j + 1)

\* No map revealers of a player are on the map.
NoCenter == <<>>

RECURSIVE RunRevealers(_, _, _)
\* The effects of a list from the j-th on that create or remove map
\* revealers, in order: where the revealers of each player are, and whether
\* revealers were created for a player who already had some.
RunRevealers(shown, effects, j) ==
    IF j > Len(effects) THEN shown
    ELSE LET e == effects[j]
             p == e.player_source
             next ==
                IF e.object_list_unit_id # UNIT_ID_MAP_REVEALER \/ p \notin 1..2
                THEN shown
                ELSE IF e.type = "create_object"
                THEN [at |-> [shown.at EXCEPT ![p] = e.location],
                      doubled |-> shown.doubled \/ shown.at[p] # NoCenter]
                ELSE IF e.type = "remove_object"
                THEN [shown EXCEPT !.at[p] = NoCenter]
                ELSE shown
         IN  RunRevealers(next, effects, j + 1)

\* The effects of a trigger run in order on state g: of the effects that
\* activate or deactivate one trigger the last one decides.
RunEffects(g, effects) ==
    LET switches == {j \in 1..Len(effects) :
                        effects[j].type \in {"activate_trigger", "deactivate_trigger"}}
        last(p) == CHOOSE j \in switches :
                      /\ effects[j].trigger_id + 1 = p
                      /\ \A h \in switches : effects[h].trigger_id + 1 = p => h <= j
        touched == {effects[j].trigger_id + 1 : j \in switches}
        on == {p \in touched : effects[last(p)].type = "activate_trigger"}
        victories == SelectSeq(effects, LAMBDA e : e.type = "declare_victory")
    IN  [g EXCEPT !.enabled = (@ \ touched) \cup on,
                  !.shown = RunRevealers(@, SelectSeq(effects,
                                LAMBDA e : e.type \in {"create_object", "remove_object"}), 1),
                  !.armed = @ \ (touched \ on),
                  !.vals = RunChanges(@, SelectSeq(effects,
                                                   LAMBDA e : e.type = "change_variable"), 1),
                  !.victor = IF victories = <<>> THEN @
                             ELSE victories[Len(victories)].player_source]

\* The trigger at position i fires.  Begin Round hands the round's units to
\* the players and Cleanup Round takes away what is left of them.  The
\* scores at the last Begin Round are kept as history.
FireTrigger(g, i) ==
    LET t == g.prog.triggers[i]
        role == g.prog.roles[i]
        off == IF t.looping THEN g
               ELSE [g EXCEPT !.enabled = @ \ {i}, !.armed = @ \ {i}]
        noted == [off EXCEPT
                     !.cursor = Rank(g, i),
                     !.fired = @ \cup ({i} \cap g.prog.recorded),
                     !.inits = IF role[2] = "init" THEN Append(@, role[1]) ELSE @,
                     !.begun = IF role[2] = "begin"
                               THEN [round |-> role[1],
                                     scores |-> <<g.vals[g.prog.var_ids["p1-score"]],
                                                  g.vals[g.prog.var_ids["p2-score"]]>>]
                               ELSE @,
                     !.live = CASE role[2] = "begin" -> @ \cup {role[1]}
                                [] role[2] = "cleanup" -> @ \ {role[1]}
                                [] OTHER -> @,
                     !.pop = CASE role[2] = "begin" -> [p \in 1..2 |-> MaxPop]
                               [] role[2] = "cleanup" -> [p \in 1..2 |-> 0]
                               [] OTHER -> @,
                     !.relics = IF @ # NoRelics /\ i \in g.prog.relic_makers
                                THEN [@ EXCEPT !.made = @ + Cardinality(RELIC_POSITIONS)]
                                ELSE @,
                     !.loops = IF i \in g.prog.paced THEN @ + 1 ELSE @]
    IN  RunEffects(noted, t.effects)

\* The enabled triggers that wait on a timer.
Timed(g) == g.enabled \cap g.prog.timed

\* The scenario is loaded: triggers are enabled as emitted, every variable
\* is 0 and the players have no units yet.
InitGameWith(lists, relics) ==
    /\ scn = NewScnData(<<TheFight>>, 0, "king")
    /\ hash_seed = 0
    /\ pc = "game"
    /\ passes = 0
    /\ declared = <<>>
    /\ fight = NoFight
    /\ cli = NoCli
    /\ call = NoCall
    /\ research = NoResearch
    /\ \E prog \in {Loaded(SetupScenario(lists[k])) : k \in 1..Len(lists)},
          order \in ScanOrders :
          /\ prog.raised = "none"
          /\ game = [loaded |-> TRUE, prog |-> prog, order |-> order,
                     enabled |-> {i \in 1..Len(prog.triggers) : prog.triggers[i].enabled},
                     armed |-> {},
                     vals |-> [v \in 0..(prog.num_vars - 1) |-> 0],
                     pop |-> [p \in 1..2 |-> 0], live |-> {},
                     cursor |-> 0, loops |-> 0, fired |-> {}, inits |-> <<>>,
                     begun |-> [round |-> -1, scores |-> <<0, 0>>],
                     relics |-> relics,
                     shown |-> [at |-> [p \in 1..2 |-> NoCenter], doubled |-> FALSE],
                     victor |-> NoVictor]

\* A game in which holding relics is up to the players.
InitGameOn(lists) == InitGameWith(lists, NoRelics)

InitGame == InitGameOn(GameLists)

\* Between two visits the players' populations change, while a trigger that
\* reads a population is enabled.
EnvStep ==
    /\ game.loaded /\ game.victor = NoVictor
    /\ game.cursor = 0
    /\ game.enabled \cap game.prog.reads_pop # {}
    /\ \E pop \in [1..2 -> 0..MaxPop] :
          /\ pop # game.pop
          /\ game' = [game EXCEPT !.pop = pop]
    /\ UNCHANGED <<scn, hash_seed, pc, passes, declared, fight, cli, call, research>>

\* The ready triggers the visit has not reached yet.
Ahead(g) == {i \in g.enabled : Rank(g, i) > g.cursor /\ Ready(g, i)}

\* The ready triggers the visit may reach next: those ahead up to the first
\* one that has to fire.
Reachable(g) ==
    LET ahead == Ahead(g)
        must == {i \in ahead : MustFire(g, i)}
    IN  IF must = {} THEN ahead
        ELSE LET first == CHOOSE i \in must : \A j \in must : Rank(g, i) <= Rank(g, j)
             IN  {i \in ahead : Rank(g, i) <= Rank(g, first)}

\* The loop reaches a ready trigger, having passed none that had to fire.
Fire ==
    /\ game.loaded /\ game.victor = NoVictor
    /\ \E i \in Reachable(game) : game' = FireTrigger(game, i)
    /\ UNCHANGED <<scn, hash_seed, pc, passes, declared, fight, cli, call, research>>

\* The visit ends: the timers of the enabled triggers have run.
EndTick ==
    /\ game.loaded /\ game.victor = NoVictor
    /\ \A i \in Ahead(game) : ~MustFire(game, i)
    /\ game.cursor # 0 \/ game.armed # Timed(game)
    /\ game' = [game EXCEPT !.cursor = 0, !.armed = Timed(game)]
    /\ UNCHANGED <<scn, hash_seed, pc, passes, declared, fight, cli, call, research>>

NextGame ==
    \/ EnvStep
    \/ Fire
    \/ EndTick

SpecGame == InitGame /\ [][NextGame]_vars

\* A fight in which the units of either player are worth MAX_POINTS, so that
\* both win bonuses are 0.
EvenFight ==
    MakeFight([archer |-> MAX_POINTS, skirmisher |-> MAX_POINTS],
              [k \in 1..FightUnits |-> "archer"], [k \in 1..FightUnits |-> "skirmisher"])

\* The event lists of the games checked for progress: the lists of two
\* rounds, one round of Capture the Relic, and a tiebreaker alone whose
\* fight can end level.
FairGameLists ==
    << <<TheFight, Minigame("DauT Castle"), TheFight>>,
       <<TheFight, Minigame("DauT Castle"), Minigame("Castle Siege")>>,
       <<TheFight, Minigame("Capture the Relic")>>,
       <<EvenFight>> >>

InitGameFair == InitGameOn(FairGameLists)

\* A ready trigger that waits for nothing the players have yet to do.
Due(g, i) ==
    LET t == g.prog.triggers[i]
    IN  /\ Ready(g, i)
        /\ \A j \in 1..Len(t.conditions) :
              IsFree(t.conditions[j]) => IsSettled(g, i, t.conditions[j])

\* The loop fires a trigger that is due.
FireDue ==
    /\ game.loaded /\ game.victor = NoVictor
    /\ \E i \in Reachable(game) : Due(game, i) /\ game' = FireTrigger(game, i)
    /\ UNCHANGED <<scn, hash_seed, pc, passes, declared, fight, cli, call, research>>

\* The engine polls without end: a trigger that stays due is fired, and a
\* visit that has passed every trigger ends.  What the players do, and
\* when, is left open.
SpecGameFair == InitGameFair /\ [][NextGame]_vars /\ WF_vars(FireDue) /\ WF_vars(EndTick)
-----------------------------------------------------------------------------
(* SpecFight: build_scenario on an input of one fight, from the           *)
(* construction of its Fight objects to the resolution pass.              *)

\* Largest number of units a player has on the fight's tile.
MaxTileUnits == 2

\* The unit names on the tile; the fight data values the first two.
TileUnitNames == {"archer", "skirmisher", "galley"}
ValuedUnitNames == {"archer", "skirmisher"}

\* Point values the fight data gives a unit.
PointChoices == {0, MAX_POINTS \div 2, MAX_POINTS \div 2 + 1}

TileUnitLists == UNION {[1..len -> TileUnitNames] : len \in 0..MaxTileUnits}

SubtractPointsUnchecked(points, ulst, bonus) ==
    IF \E k \in 1..Len(ulst) : ulst[k] \notin DOMAIN points
    THEN [raised |-> "ValueError", bonus |-> bonus]
    ELSE [raised |-> "none", bonus |-> bonus - SumPoints(points, ulst)]

RECURSIVE SubtractPointsStrict(_, _, _)
SubtractPointsStrict(points, ulst, bonus) ==
    IF ulst = <<>> THEN [raised |-> "none", bonus |-> bonus]
    ELSE IF Head(ulst) \notin DOMAIN points THEN [raised |-> "ValueError", bonus |-> bonus]
    ELSE IF bonus - points[Head(ulst)] <= 0
         THEN [raised |-> "ValueError", bonus |-> bonus - points[Head(ulst)]]
    ELSE SubtractPointsStrict(points, Tail(ulst), bonus - points[Head(ulst)])

\* Fight.__init__, one of its two loops: the points of a player's units are
\* taken off the opponent's bonus one unit at a time; a unit without a point
\* value and a bonus below 0 raise.
RECURSIVE SubtractPoints(_, _, _)
SubtractPoints(points, ulst, bonus) ==
    IF ulst = <<>> THEN [raised |-> "none", bonus |-> bonus]
    ELSE IF Head(ulst) \notin DOMAIN points THEN [raised |-> "ValueError", bonus |-> bonus]
    ELSE IF bonus - points[Head(ulst)] < 0
         THEN [raised |-> "ValueError", bonus |-> bonus - points[Head(ulst)]]
    ELSE SubtractPoints(points, Tail(ulst), bonus - points[Head(ulst)])

\* Fight.__init__: the object, or the exception it raises.
FightInit(points, p1_units, p2_units) ==
    LET p2_bonus == SubtractPoints(points, p1_units, MAX_POINTS)
        p1_bonus == SubtractPoints(points, p2_units, MAX_POINTS)
        failed == [raised |-> "ValueError", object |-> NoFight]
    IN  IF p1_units = <<>> THEN failed
        ELSE IF p2_units = <<>> THEN failed
        ELSE IF p2_bonus.raised # "none" THEN failed
        ELSE IF p1_bonus.raised # "none" THEN failed
        ELSE [raised |-> "none",
              object |-> [kind |-> "Fight", points |-> points,
                          p1_units |-> p1_units, p2_units |-> p2_units,
                          p2_bonus |-> p2_bonus.bonus, p1_bonus |-> p1_bonus.bonus]]

\* A make_fights whose second fight of a tile with units of both players
\* repeats the first.
MakeFightsUnswapped(points, p1_units, p2_units) ==
    IF p1_units = <<>> THEN [raised |-> "ValueError", events |-> <<>>]
    ELSE LET f == FightInit(points, p1_units, IF p2_units = <<>> THEN p1_units ELSE p2_units)
         IN  IF f.raised # "none" THEN [raised |-> f.raised, events |-> <<>>]
             ELSE [raised |-> "none",
                   events |-> IF p2_units = <<>> THEN <<f.object>> ELSE <<f.object, f.object>>]

\* make_fights for one FightData: a tile with units of Player 1 only gives one
\* mirrored fight, a tile with units of both gives two fights with the
\* sides swapped; the first Fight that cannot be constructed ends the call.
MakeFights(points, p1_units, p2_units) ==
    IF p1_units = <<>> THEN [raised |-> "ValueError", events |-> <<>>]
    ELSE IF p2_units = <<>>
    THEN LET f == FightInit(points, p1_units, p1_units)
         IN  [raised |-> f.raised,
              events |-> IF f.raised = "none" THEN <<f.object>> ELSE <<>>]
    ELSE LET f == FightInit(points, p1_units, p2_units)
             g == FightInit(points, p2_units, p1_units)
         IN  IF f.raised # "none" THEN [raised |-> f.raised, events |-> <<>>]
             ELSE IF g.raised # "none" THEN [raised |-> g.raised, events |-> <<f.object>>]
             ELSE [raised |-> "none", events |-> <<f.object, g.object>>]

\* build_scenario before ScnData is constructed.
NoScnData == [raised |-> "none", triggers |-> <<>>, var_ids |-> <<>>,
              activate_triggers |-> EmptyDict, deactivate_triggers |-> EmptyDict]

InitFight ==
    /\ scn = NoScnData
    /\ hash_seed = 0
    /\ pc = "make_fights"
    /\ passes = 0
    /\ declared = <<>>
    /\ game = NoGame
    /\ cli = NoCli
    /\ call = NoCall
    /\ research = NoResearch
    /\ \E points \in [ValuedUnitNames -> PointChoices],
          p1_units \in TileUnitLists, p2_units \in TileUnitLists :
          fight = [made |-> "pending", points |-> points,
                   p1_units |-> p1_units, p2_units |-> p2_units, events |-> <<>>]

\* events = event.make_fights(units_scn, fight_data_list, ...)
StepMakeFights ==
    /\ pc = "make_fights"
    /\ LET made == MakeFights(fight.points, fight.p1_units, fight.p2_units)
       IN  /\ fight' = [fight EXCEPT
                           !.made = IF made.raised = "none" THEN "accepted" ELSE "rejected",
                           !.events = made.events]
           /\ pc' = IF made.raised = "none" THEN "made" ELSE "aborted"
    /\ UNCHANGED <<scn, hash_seed, passes, declared, game, cli, call, research>>

\* scn_data = ScnData(scn, events, xbow_scn, arena_scn, hero, buff)
StepNewScnData ==
    /\ pc = "made"
    /\ scn' = NewScnData(fight.events, 0, "king")
    /\ pc' = "start"
    /\ UNCHANGED <<hash_seed, passes, declared, game, fight, cli, call, research>>

NextFight ==
    \/ StepMakeFights
    \/ StepNewScnData
    \/ StepNameVariables
    \/ StepAddInitialTriggers
    \/ StepSetupRound
    \/ StepResolve

SpecFight == InitFight /\ [][NextFight]_vars
-----------------------------------------------------------------------------
(* SpecCli: the build command, from its arguments to the written file.     *)

SCENARIO_TEMPLATE == "scenario-template.aoe2scenario"
UNIT_TEMPLATE == "unit-template.aoe2scenario"
XBOW_TEMPLATE == "xbow-timer-template.aoe2scenario"
ARENA_TEMPLATE == "arena-units.aoe2scenario"
OUTPUT == "Micro Wars.aoe2scenario"
DEFAULT_FILE == "events.json"

\* A path given on the command line instead of a default.
CustomPath == "custom.aoe2scenario"

\* The heroes the command accepts, and one it does not.
HeroChoices == {"king", "joan_of_arc", "genghis_khan", "villager"}

\* The minigames an event file may hold that make build_scenario read a
\* further template.
EventFiles == SUBSET {"Xbow Timer", "Capture the Relic"}

\* The arguments of the build command: each input path is its default or the
\* custom path, the output is any of the paths.
CliArgs ==
    [map : {SCENARIO_TEMPLATE, CustomPath},
     units : {UNIT_TEMPLATE, CustomPath},
     events : {DEFAULT_FILE, CustomPath},
     xbow : {XBOW_TEMPLATE, CustomPath},
     arena : {ARENA_TEMPLATE, CustomPath},
     output : {SCENARIO_TEMPLATE, UNIT_TEMPLATE, DEFAULT_FILE, XBOW_TEMPLATE,
               ARENA_TEMPLATE, OUTPUT, CustomPath},
     hero : HeroChoices]

\* call_build_scenario: the keyword arguments it hands to build_scenario; the
\* parameters it does not name keep their defaults.
BuildArgs(args) ==
    [scenario_template |-> args.map, unit_template |-> args.units,
     event_json |-> args.events, xbow_template |-> XBOW_TEMPLATE,
     arena_template |-> ARENA_TEMPLATE, output |-> args.output]

\* call_build_scenario: the names of the inputs the output path equals.
Matches(args) ==
    {n \in {"map", "units", "events", "xbow", "arena"} : args.output = args[n]}

InitCli ==
    /\ scn = NoScnData
    /\ hash_seed = 0
    /\ pc = "cli"
    /\ passes = 0
    /\ declared = <<>>
    /\ game = NoGame
    /\ fight = NoFight
    /\ call = NoCall
    /\ research = NoResearch
    /\ \E args \in CliArgs, minigames \in EventFiles, accepted \in BOOLEAN :
          cli = [at |-> "call", args |-> args, minigames |-> minigames,
                 accepted |-> accepted, build |-> BuildArgs(args),
                 read |-> {}, written |-> {}, raised |-> "none"]

\* call_build_scenario up to its call of build_scenario
CallBuildScenario ==
    /\ cli.at = "call"
    /\ cli' = IF Matches(cli.args) # {} \/ cli.args.hero \notin {"king", "joan_of_arc", "genghis_khan"}
              THEN [cli EXCEPT !.at = "rejected", !.raised = "ValueError"]
              ELSE [cli EXCEPT !.at = "templates", !.build = BuildArgs(cli.args)]
    /\ UNCHANGED <<scn, hash_seed, pc, passes, declared, game, fight, call, research>>

\* scn = AoE2Scenario(scenario_template); units_scn = AoE2Scenario(unit_template)
ReadTemplates ==
    /\ cli.at = "templates"
    /\ cli' = [cli EXCEPT !.at = "events",
                          !.read = @ \cup {cli.build.scenario_template, cli.build.unit_template}]
    /\ UNCHANGED <<scn, hash_seed, pc, passes, declared, game, fight, call, research>>

\* fight_data_list = event.load_fight_data(event_json); events = make_fights(...)
LoadEvents ==
    /\ cli.at = "events"
    /\ cli' = [cli EXCEPT !.at = "variants", !.read = @ \cup {cli.build.event_json}]
    /\ UNCHANGED <<scn, hash_seed, pc, passes, declared, game, fight, call, research>>

\* xbow_scn and arena_scn: read when the events hold the minigame
ReadVariantTemplates ==
    /\ cli.at = "variants"
    /\ cli' = [cli EXCEPT
                  !.at = "setup",
                  !.read = @ \cup (IF "Xbow Timer" \in cli.minigames
                                   THEN {cli.build.xbow_template} ELSE {})
                             \cup (IF "Capture the Relic" \in cli.minigames
                                   THEN {cli.build.arena_template} ELSE {})]
    /\ UNCHANGED <<scn, hash_seed, pc, passes, declared, game, fight, call, research>>

\* scn_data = ScnData(...); scn_data.setup_scenario(): it returns or raises
SetupFromCli ==
    /\ cli.at = "setup"
    /\ cli' = IF cli.accepted THEN [cli EXCEPT !.at = "write"]
              ELSE [cli EXCEPT !.at = "aborted", !.raised = "ValueError"]
    /\ UNCHANGED <<scn, hash_seed, pc, passes, declared, game, fight, call, research>>

\* scn_data.write_to_file(output)
WriteToFile ==
    /\ cli.at = "write"
    /\ cli' = [cli EXCEPT !.at = "done", !.written = @ \cup {cli.build.output}]
    /\ UNCHANGED <<scn, hash_seed, pc, passes, declared, game, fight, call, research>>

NextCli ==
    \/ CallBuildScenario
    \/ ReadTemplates
    \/ LoadEvents
    \/ ReadVariantTemplates
    \/ SetupFromCli
    \/ WriteToFile

SpecCli == InitCli /\ [][NextCli]_vars
-----------------------------------------------------------------------------
(* SpecCall: calls of the functions of the modules event and fight.        *)

\* The longest list of technologies handed to a FightData.
MaxTechs == 2

FIGHT_LIMIT == 36
TILE_WIDTH == 20
FIGHT_GRID_LENGTH == 6

get_start_tile_transposed(index) ==
    <<(index \div FIGHT_GRID_LENGTH) * TILE_WIDTH, (index % FIGHT_GRID_LENGTH) * TILE_WIDTH>>

\* get_start_tile (the same in event.py and fight.py): y, x = divmod(index, 6)
get_start_tile(index) ==
    LET y == index \div FIGHT_GRID_LENGTH
        x == index % FIGHT_GRID_LENGTH
    IN  <<x * TILE_WIDTH, y * TILE_WIDTH>>

\* The technology and unit names of the input: two of each that the
\* datasets know, in alphabetical order, and one they do not.
TechNames == <<"bloodlines", "drill">>
UnitNames == <<"archer", "bombard_cannon">>
InvalidName == "invalid-name"

\* util_techs.is_tech
is_tech(tech_name) == tech_name \in Range(TechNames)

\* util_units.is_unit
is_unit(unit_name) == unit_name \in Range(UnitNames)

\* sorted(techs), for lists of the names of the input
SortedTechs(techs) ==
    LET order == TechNames \o <<InvalidName>>
        count(n) == Cardinality({k \in 1..Len(techs) : techs[k] = n})
        copies(n) == [k \in 1..count(n) |-> n]
    IN  copies(order[1]) \o copies(order[2]) \o copies(order[3])

\* fight.FightData.__init__: point values must be positive
fight_FightData(techs, points) ==
    IF \/ \E k \in 1..Len(techs) : ~is_tech(techs[k])
       \/ \E u \in DOMAIN points : ~is_unit(u) \/ points[u] <= 0
    THEN [raised |-> "ValueError"]
    ELSE [raised |-> "none", techs |-> techs, points |-> points]

\* event.FightData.__init__: the techs are sorted, point values must not be
\* negative
event_FightData(techs, points) ==
    IF \/ \E k \in 1..Len(techs) : ~is_tech(techs[k])
       \/ \E u \in DOMAIN points : ~is_unit(u) \/ points[u] < 0
    THEN [raised |-> "ValueError"]
    ELSE [raised |-> "none", techs |-> SortedTechs(techs), points |-> points]

\* Inputs of the constructors: tech lists of up to MaxTechs names, point tables
\* over the names with the values of the tests (20, 0, -1) and 1.
TechLists ==
    UNION {[1..len -> Range(TechNames) \cup {InvalidName}] : len \in 0..MaxTechs}

PointValues == {-1, 0, 1, 20}

PointTables ==
    UNION {[keys -> PointValues] : keys \in SUBSET (Range(UnitNames) \cup {InvalidName})}

InitCall ==
    /\ scn = NoScnData
    /\ hash_seed = 0
    /\ pc = "call"
    /\ passes = 0
    /\ declared = <<>>
    /\ game = NoGame
    /\ fight = NoFight
    /\ cli = NoCli
    /\ research = NoResearch
    /\ \/ \E index \in 0..(FIGHT_LIMIT - 1) :
             call = [fn |-> "get_start_tile", index |-> index, returned |-> FALSE]
       \/ \E module \in {"event", "fight"}, techs \in TechLists, points \in PointTables :
             call = [fn |-> module \o ".FightData", techs |-> techs, points |-> points,
                     returned |-> FALSE]

\* get_start_tile(index)
CallGetStartTile ==
    /\ call.fn = "get_start_tile" /\ ~call.returned
    /\ call' = [fn |-> call.fn, index |-> call.index, returned |-> TRUE,
                result |-> get_start_tile(call.index)]
    /\ UNCHANGED <<scn, hash_seed, pc, passes, declared, game, fight, cli, research>>

\* fight.FightData(techs, points)
CallFightFightData ==
    /\ call.fn = "fight.FightData" /\ ~call.returned
    /\ call' = [fn |-> call.fn, techs |-> call.techs, points |-> call.points,
                returned |-> TRUE, result |-> fight_FightData(call.techs, call.points)]
    /\ UNCHANGED <<scn, hash_seed, pc, passes, declared, game, fight, cli, research>>

\* event.FightData(techs, points)
CallEventFightData ==
    /\ call.fn = "event.FightData" /\ ~call.returned
    /\ call' = [fn |-> call.fn, techs |-> call.techs, points |-> call.points,
                returned |-> TRUE, result |-> event_FightData(call.techs, call.points)]
    /\ UNCHANGED <<scn, hash_seed, pc, passes, declared, game, fight, cli, research>>

NextCall ==
    \/ CallGetStartTile
    \/ CallFightFightData
    \/ CallEventFightData

SpecCall == InitCall /\ [][NextCall]_vars
-----------------------------------------------------------------------------
(* The technologies of an event list: make_fights lets a technology be      *)
(* listed by one fight of the file only, _research_techs puts the research  *)
(* effects on the Initialize Round triggers in the order the rounds are     *)
(* compiled, and the game fires those triggers in the order the rounds are  *)
(* played: 1..N, and the tiebreaker last, on a tie.                         *)

\* The longest event file of the technology model.
MaxTechEvents == 3

\* Fight.__init__: the fight takes the technologies of its FightData.
TechFight(techs) == [kind |-> "Fight", techs |-> techs]

\* One fight of the event file: its technologies, and whether both players
\* have units on the fight's tile of the unit template.
TechFightData(techs, both) == [kind |-> "FightData", techs |-> techs, both |-> both]

\* The technology lists of the fights of the input.
FightTechChoices == {<<>>, <<"fletching">>, <<"bloodlines">>}

\* The entries of the event files of the input.
TechEntries ==
    {TechFightData(techs, both) : techs \in FightTechChoices, both \in BOOLEAN}
        \cup {Minigame("Steal the Bacon"), Minigame("Galley Micro")}

\* The event files of the input: a fight first, which becomes the tiebreaker.
TechEventData ==
    {data \in UNION {[1..len -> TechEntries] : len \in 1..MaxTechEvents} :
        data[1].kind = "FightData"}

RECURSIVE MakeEventsFrom(_, _, _, _)
\* make_fights, as far as the technologies go: a mirrored fight for a tile
\* with the units of one player, two fights for a tile with the units of
\* both, and a ValueError for a technology that two fights of the file list.
MakeEventsFrom(event_data, k, events, techs) ==
    IF k > Len(event_data) THEN [raised |-> "none", events |-> events]
    ELSE LET event == event_data[k]
         IN  IF IsMinigame(event)
             THEN MakeEventsFrom(event_data, k + 1, Append(events, event), techs)
             ELSE IF Range(event.techs) \cap techs # {}
                  THEN [raised |-> "ValueError", events |-> <<>>]
                  ELSE MakeEventsFrom(event_data, k + 1,
                           events \o (IF event.both
                                      THEN <<TechFight(event.techs), TechFight(event.techs)>>
                                      ELSE <<TechFight(event.techs)>>),
                           techs \cup Range(event.techs))

\* make_fights(units_scn, event_data, center, offset)
MakeEvents(event_data) == MakeEventsFrom(event_data, 1, <<>>, {})

\* ScnData._research_techs: the technologies of a minigame.
MinigameTechs(name) ==
    CASE name = "Steal the Bacon" -> <<"loom">>
      [] name = "Tower Battlefield" -> <<"loom", "feudal_age", "man_at_arms">>
      [] name = "Galley Micro" -> <<"feudal_age", "fletching">>
      [] name = "Xbow Timer" -> <<"feudal_age", "fletching">>
      [] name = "Capture the Relic" ->
            <<"castle_age", "crossbowman", "fletching", "bodkin_arrow">>
      [] name = "DauT Castle" ->
            <<"loom", "castle_age", "crossbowman", "elite_skirmisher", "fletching",
              "bodkin_arrow", "sanctity", "atonement", "redemption", "bloodlines">>
      [] name = "Castle Siege" ->
            <<"loom", "imperial_age", "hoardings", "chemistry", "capped_ram", "siege_ram",
              "pikeman", "halberdier", "squires", "elite_cataphract", "logistica",
              "forging", "iron_casting", "blast_furnace",
              "scale_mail_armor", "chain_mail_armor", "plate_mail_armor",
              "scale_barding_armor", "chain_barding_armor", "plate_barding_armor",
              "fletching", "bodkin_arrow", "bracer",
              "padded_archer_armor", "leather_archer_armor", "ring_archer_armor",
              "thumb_ring", "ballistics", "chemistry", "siege_engineers",
              "bloodlines", "husbandry">>
      [] name = "Regicide" ->
            <<"imperial_age", "squires", "man_at_arms",
              "long_swordsman", "two_handed_swordsman", "champion",
              "crossbowman", "arbalester",
              "cavalier", "paladin", "elite_cataphract", "logistica",
              "forging", "iron_casting", "blast_furnace",
              "scale_mail_armor", "chain_mail_armor", "plate_mail_armor",
              "scale_barding_armor", "chain_barding_armor", "plate_barding_armor",
              "fletching", "bodkin_arrow", "bracer",
              "padded_archer_armor", "leather_archer_armor", "ring_archer_armor",
              "thumb_ring", "ballistics", "chemistry", "siege_engineers",
              "bloodlines", "husbandry">>

\* ScnData._research_techs: the technologies of the event of a round.
EventTechs(e) == IF IsMinigame(e) THEN MinigameTechs(e.name) ELSE e.techs

\* util_triggers.add_effect_research_tech; the technology is kept by name.
EffectResearchTech(tech_name, player) ==
    [type |-> "research_technology", technology |-> tech_name, player_source |-> player]

\* ScnData._add_effect_research_tech: a technology not yet in
\* _researched_techs is added to it and researched for Gaia and both
\* players; one that is there already gets no effect.
AddEffectResearchTech(acc, tech_name) ==
    IF tech_name \in acc.researched_techs THEN acc
    ELSE [researched_techs |-> acc.researched_techs \cup {tech_name},
          effects |-> acc.effects \o [p \in 1..3 |-> EffectResearchTech(tech_name, p - 1)]]

RECURSIVE ResearchTechsFrom(_, _, _)
ResearchTechsFrom(acc, event_techs, k) ==
    IF k > Len(event_techs) THEN acc
    ELSE ResearchTechsFrom(AddEffectResearchTech(acc, event_techs[k]), event_techs, k + 1)

\* ScnData._research_techs(trigger, index): the effects put on the trigger,
\* and _researched_techs afterwards.
ResearchTechs(researched_techs, events, index) ==
    ResearchTechsFrom([researched_techs |-> researched_techs, effects |-> <<>>],
                      EventTechs(events[index + 1]), 1)

\* The technologies the players have once a list of effects has run.
Researched(has, effects) ==
    has \cup {<<effects[j].technology, effects[j].player_source>> : j \in 1..Len(effects)}

InitTech ==
    /\ scn = NewScnData(<<TheFight>>, 0, "king")
    /\ hash_seed = 0
    /\ pc = "tech"
    /\ passes = 0
    /\ declared = <<>>
    /\ game = NoGame
    /\ fight = NoFight
    /\ cli = NoCli
    /\ call = NoCall
    /\ \E event_data \in TechEventData :
          research = [at |-> "loaded", event_data |-> event_data, events |-> <<>>,
                      raised |-> "none", index |-> 0, researched_techs |-> {},
                      init_effects |-> <<>>, inits |-> <<>>, has |-> {}]

\* make_fights turns the file into the event list, or rejects it.
CallMakeFights ==
    /\ research.at = "loaded"
    /\ LET made == MakeEvents(research.event_data)
       IN  research' = [research EXCEPT
                           !.at = IF made.raised = "none" THEN "compile" ELSE "rejected",
                           !.raised = made.raised,
                           !.events = made.events]
    /\ UNCHANGED <<scn, hash_seed, pc, passes, declared, game, fight, cli, call>>

\* _setup_rounds compiles the next event, index 0 first: _RoundTriggers
\* creates the Initialize Round trigger and calls _research_techs on it.
CompileRound ==
    /\ research.at = "compile"
    /\ research.index < Len(research.events)
    /\ LET done == ResearchTechs(research.researched_techs, research.events, research.index)
       IN  research' = [research EXCEPT
                           !.researched_techs = done.researched_techs,
                           !.init_effects = Append(@, done.effects),
                           !.index = @ + 1,
                           !.at = IF research.index + 1 = Len(research.events)
                                  THEN "play" ELSE "compile"]
    /\ UNCHANGED <<scn, hash_seed, pc, passes, declared, game, fight, cli, call>>

\* The Initialize Round trigger of the next regular round fires: the round
\* counter has reached its index.
FireInitRound ==
    /\ research.at = "play"
    /\ Len(research.inits) < Len(research.events) - 1
    /\ LET round == Len(research.inits) + 1
           has == Researched(research.has, research.init_effects[round + 1])
       IN  research' = [research EXCEPT
                           !.has = has,
                           !.inits = Append(@, [round |-> round, has |-> has])]
    /\ UNCHANGED <<scn, hash_seed, pc, passes, declared, game, fight, cli, call>>

\* The regular rounds end level: '[V] Check Tie' activates the tiebreaker's
\* Initialize Round trigger, which fires.
FireInitTiebreaker ==
    /\ research.at = "play"
    /\ Len(research.inits) = Len(research.events) - 1
    /\ LET has == Researched(research.has, research.init_effects[1])
       IN  research' = [research EXCEPT
                           !.at = "done",
                           !.has = has,
                           !.inits = Append(@, [round |-> 0, has |-> has])]
    /\ UNCHANGED <<scn, hash_seed, pc, passes, declared, game, fight, cli, call>>

\* The regular rounds end with a winner: the tiebreaker is never played.
EndWithoutTiebreaker ==
    /\ research.at = "play"
    /\ Len(research.events) > 1
    /\ Len(research.inits) = Len(research.events) - 1
    /\ research' = [research EXCEPT !.at = "done"]
    /\ UNCHANGED <<scn, hash_seed, pc, passes, declared, game, fight, cli, call>>

NextTech ==
    \/ CallMakeFights
    \/ CompileRound
    \/ FireInitRound
    \/ FireInitTiebreaker
    \/ EndWithoutTiebreaker

SpecTech == InitTech /\ [][NextTech]_vars
-----------------------------------------------------------------------------
(* SpecMake: make_fights on an event file of minigames and fights, each     *)
(* fight with the units its tile of the unit template holds.                *)

\* The longest event file handed to make_fights.
MaxFileEvents == 3

\* The point values of the fights of the file.
TilePoints == [archer |-> 10, skirmisher |-> 5]

\* What a tile of the unit template holds: the units of Player 1 and those
\* of Player 2.  The last tile is empty.
Tiles ==
    { <<<<"archer">>, <<>>>>,
      <<<<"archer">>, <<"skirmisher">>>>,
      <<<<"archer", "archer">>, <<"skirmisher">>>>,
      <<<<>>, <<>>>> }

\* One fight of the file: its FightData and the tile it is loaded from.
TileFightData(techs, tile) ==
    [kind |-> "FightData", techs |-> techs, points |-> TilePoints,
     p1_units |-> tile[1], p2_units |-> tile[2]]

FileEntries ==
    {TileFightData(techs, tile) : techs \in {<<>>, <<"fletching">>}, tile \in Tiles}
        \cup {Minigame("Galley Micro")}

EventFileLists == UNION {[1..len -> FileEntries] : len \in 1..MaxFileEvents}

RECURSIVE MakeFightsFrom(_, _, _, _)
\* make_fights: a minigame is kept as it is; a fight becomes the one or two
\* Fight objects of its tile, and a technology that an earlier fight of the
\* file lists raises a ValueError.
MakeFightsFrom(event_data, k, events, techs) ==
    IF k > Len(event_data) THEN [raised |-> "none", events |-> events]
    ELSE LET event == event_data[k]
         IN  IF IsMinigame(event)
             THEN MakeFightsFrom(event_data, k + 1, Append(events, event), techs)
             ELSE LET made == MakeFights(event.points, event.p1_units, event.p2_units)
                  IN  IF made.raised # "none"
                      THEN [raised |-> made.raised, events |-> <<>>]
                      ELSE IF Range(event.techs) \cap techs # {}
                      THEN [raised |-> "ValueError", events |-> <<>>]
                      ELSE MakeFightsFrom(event_data, k + 1, events \o made.events,
                                          techs \cup Range(event.techs))

InitMake ==
    /\ scn = NoScnData
    /\ hash_seed = 0
    /\ pc = "make_fights_file"
    /\ passes = 0
    /\ declared = <<>>
    /\ game = NoGame
    /\ cli = NoCli
    /\ call = NoCall
    /\ research = NoResearch
    /\ \E event_data \in EventFileLists :
          fight = [made |-> "pending", event_data |-> event_data, events |-> <<>>]

\* events = event.make_fights(units_scn, fight_data_list, center, offset)
CallMakeFightsFile ==
    /\ pc = "make_fights_file"
    /\ LET made == MakeFightsFrom(fight.event_data, 1, <<>>, {})
       IN  /\ fight' = [fight EXCEPT
                           !.made = IF made.raised = "none" THEN "accepted" ELSE "rejected",
                           !.events = made.events]
           /\ pc' = IF made.raised = "none" THEN "made_file" ELSE "aborted"
    /\ UNCHANGED <<scn, hash_seed, passes, declared, game, cli, call, research>>

NextMake == CallMakeFightsFile

SpecMake == InitMake /\ [][NextMake]_vars
-----------------------------------------------------------------------------
(* Capture the Relic played with the relics counted: every firing of       *)
(* Create Relics puts a relic on each of RELIC_POSITIONS, and a player     *)
(* holds a relic from the moment a monk has carried it home.               *)

\* The event list of the game: the tiebreaker and one round of Capture the
\* Relic.
RelicLists == << <<TheFight, Minigame("Capture the Relic")>> >>

\* No relic has been made and none is held.
InitRelic == InitGameWith(RelicLists, [held |-> <<0, 0>>, made |-> 0])

\* Between two visits a player brings home a relic that lies on the map.
CaptureRelic ==
    /\ game.loaded /\ game.victor = NoVictor
    /\ game.cursor = 0
    /\ game.relics # NoRelics
    /\ game.relics.held[1] + game.relics.held[2] < game.relics.made
    /\ \E p \in 1..2 :
          game' = [game EXCEPT !.relics.held[p] = @ + 1]
    /\ UNCHANGED <<scn, hash_seed, pc, passes, declared, fight, cli, call, research>>

NextRelic ==
    \/ CaptureRelic
    \/ Fire
    \/ EndTick

SpecRelic == InitRelic /\ [][NextRelic]_vars
(* Properties of the registration interface and of the resolution pass.    *)

\* The activate / deactivate targets that were declared for `name`, from the history.
DeclaredTargets(kind, name) ==
    {declared[i][3] : i \in {j \in DOMAIN declared :
                                declared[j][1] = kind /\ declared[j][2] = name}}

RECURSIVE Repeat(_, _)
Repeat(s, k) == IF k = 0 THEN <<>> ELSE s \o Repeat(s, k - 1)

\* C1: a call of _add_trigger with a name that is already registered raises an
\* error and leaves the name-to-index registry and the emitted trigger list
\* exactly as they were before the call.
C1_DuplicateTriggerRejected ==
    [][\A name \in ApiNames :
          (CallAddTrigger(name) /\ name \in Registered(scn))
             => /\ scn'.raised = "ValueError"
                /\ scn'.trigger_ids = scn.trigger_ids
                /\ scn'.triggers = scn.triggers]_vars

\* C1 witness: a duplicate _add_trigger call was rejected with two triggers registered.
C1_Witness ==
    /\ scn.raised = "ValueError"
    /\ declared = <<>>
    /\ Len(scn.triggers) = 2

\* C2: declaring the same (kind, source, target) a second time raises an error
\* and leaves the declared edge sets unchanged, while a declaration whose
\* target differs from the targets already declared for (kind, source) succeeds
\* and adds exactly that edge.
C2_DuplicateEdgeRejected ==
    [][\A source \in ApiNames, target \in ApiNames :
          /\ CallAddActivate(source, target) =>
                IF target \in Targets(scn.activate_triggers, source)
                THEN /\ scn'.raised = "ValueError"
                     /\ scn'.activate_triggers = scn.activate_triggers
                     /\ scn'.deactivate_triggers = scn.deactivate_triggers
                ELSE /\ scn'.raised = "none"
                     /\ Targets(scn'.activate_triggers, source)
                            = Targets(scn.activate_triggers, source) \cup {target}
                     /\ scn'.deactivate_triggers = scn.deactivate_triggers
          /\ CallAddDeactivate(source, target) =>
                IF target \in Targets(scn.deactivate_triggers, source)
                THEN /\ scn'.raised = "ValueError"
                     /\ scn'.activate_triggers = scn.activate_triggers
                     /\ scn'.deactivate_triggers = scn.deactivate_triggers
                ELSE /\ scn'.raised = "none"
                     /\ Targets(scn'.deactivate_triggers, source)
                            = Targets(scn.deactivate_triggers, source) \cup {target}
                     /\ scn'.activate_triggers = scn.activate_triggers]_vars

\* C2 witness: a source holds two targets of one kind and a repeated declaration
\* was rejected.
C2_Witness ==
    /\ scn.raised = "ValueError"
    /\ \E s \in ApiNames : Cardinality(Targets(scn.activate_triggers, s)) = 2

\* C3: the resolution pass run over declared edges of which some source or
\* target was never registered aborts with an error; it never completes.
C3_DanglingAborts ==
    [][(CallResolve /\ Dangling(scn))
          => (scn'.raised = "KeyError" /\ pc' = "aborted")]_vars

\* C3 witness: the pass aborted on a dangling edge after the source of an
\* earlier edge had received its effect.
C3_Witness ==
    /\ pc = "aborted"
    /\ scn.raised = "KeyError"
    /\ Dangling(scn)
    /\ \E i \in DOMAIN scn.triggers : scn.triggers[i].effects # <<>>

\* The edge effects of trigger `name` in the order its edges were declared.
DeclaredEffects(name) ==
    LET mine == SelectSeq(declared, LAMBDA e : e[2] = name)
    IN  [i \in 1..Len(mine) |-> EdgeEffect(scn, mine[i][1], mine[i][3])]

\* C5 as stated: after the pass every trigger carries its activate and
\* deactivate effects in the order in which its edges were declared.
C5_DeclarationOrder ==
    (pc = "resolved" /\ passes = 1) =>
        \A i \in DOMAIN scn.triggers :
            scn.triggers[i].effects = DeclaredEffects(scn.triggers[i].name)

\* C5 amended: after the pass every trigger carries one effect per declared
\* edge, all its activate effects before all its deactivate effects (the order
\* within a kind is the iteration order of the target set).
C5_ActivateBeforeDeactivate ==
    (pc = "resolved" /\ passes = 1) =>
        \A i \in DOMAIN scn.triggers :
            LET name == scn.triggers[i].name
                eff  == scn.triggers[i].effects
                acts == DeclaredTargets("activate", name)
                deas == DeclaredTargets("deactivate", name)
                na   == Cardinality(acts)
                nd   == Cardinality(deas)
            IN  /\ Len(eff) = na + nd
                /\ {eff[k] : k \in 1..na}
                      = {EffectActivate(scn.trigger_ids[t]) : t \in acts}
                /\ {eff[k] : k \in (na + 1)..(na + nd)}
                      = {EffectDeactivate(scn.trigger_ids[t]) : t \in deas}

\* C5 witness: a resolved trigger whose deactivate edge was declared before its
\* activate edge.
C5_Witness ==
    /\ pc = "resolved" /\ passes = 1
    /\ Len(declared) = 2
    /\ declared[1][1] = "deactivate" /\ declared[2][1] = "activate"
    /\ declared[1][2] = declared[2][2]
    /\ \E i \in DOMAIN scn.triggers :
          scn.triggers[i].name = declared[1][2] /\ Len(scn.triggers[i].effects) = 2

\* C6 as stated: after two runs of the pass every trigger carries the same
\* effect list as after one run.
C6_Idempotent ==
    (pc = "resolved" /\ passes = 2) =>
        \A i \in DOMAIN scn.triggers :
            scn.triggers[i].effects = OnePass(scn, hash_seed, scn.triggers[i].name)

\* C6 amended: every run of the pass appends every rule's edge effects again,
\* in the same order: after k runs a rule carries k effects per declared edge,
\* each run's block equal to the first.
C6_EachPassAppends ==
    pc \in {"build", "resolved"} =>
        \A i \in DOMAIN scn.triggers :
            LET name == scn.triggers[i].name
                eff  == scn.triggers[i].effects
                n    == Cardinality(DeclaredTargets("activate", name))
                          + Cardinality(DeclaredTargets("deactivate", name))
            IN  /\ Len(eff) = passes * n
                /\ \A k \in 1..Len(eff) : k > n => eff[k] = eff[k - n]

\* C6 witness: the pass has run twice over a trigger that has an edge.
C6_Witness ==
    /\ pc = "resolved" /\ passes = 2
    /\ \E i \in DOMAIN scn.triggers : Len(scn.triggers[i].effects) = 2


\* The registry maps the registered names one to one onto 0..n-1, and the
\* trigger at each index of the trigger list bears the name mapped to it.
RegistryIsBijection ==
    LET n == Len(scn.triggers)
    IN  /\ Cardinality(Registered(scn)) = n
        /\ {scn.trigger_ids[x] : x \in Registered(scn)} = 0..(n - 1)
        /\ \A x \in Registered(scn) : scn.triggers[scn.trigger_ids[x] + 1].name = x

\* A step keeps the index of every registered name and gives a new name the
\* number of names registered before it.
RegistryGrowsInOrder ==
    /\ \A x \in Registered(scn) :
          x \in Registered(scn') /\ scn'.trigger_ids[x] = scn.trigger_ids[x]
    /\ \A x \in Registered(scn') \ Registered(scn) :
          scn'.trigger_ids[x] = Cardinality(Registered(scn))

-----------------------------------------------------------------------------
(* Claims about the compiled scenario (SpecBuild).                         *)

\* The trigger registered under `name`.
TriggerNamed(d, name) == d.triggers[d.trigger_ids[name] + 1]

\* How many effects of sequence effs equal e.
CountOf(effs, e) == Cardinality({j \in 1..Len(effs) : effs[j] = e})

\* The effect type an edge of each kind is expected to produce.
EffectTypeOf == [activate |-> "activate_trigger", deactivate |-> "deactivate_trigger"]

EdgeEffectTypes == {EffectTypeOf[k] : k \in DOMAIN EffectTypeOf}

\* C4: for every accepted event list, once setup_scenario has run, the source
\* and the target of every declared edge are registered triggers (the pass
\* never meets a dangling name), every declared (kind, source, target) gives
\* exactly one effect of that kind on the source's trigger carrying the index
\* registered for the target, and no trigger carries any other activate or
\* deactivate effect: emitted edge effects and declared edges are equal in
\* number.
C4_EveryEdgeResolves ==
    /\ scn.raised # "KeyError"
    /\ pc = "resolved" =>
        /\ \A k \in 1..Len(KindOrder) :
            LET kind == KindOrder[k]
                m == Mapping(scn, kind)
            IN  \A source \in DOMAIN m.sets :
                    /\ source \in Registered(scn)
                    /\ LET effs == TriggerNamed(scn, source).effects
                       IN  \A j \in 1..Len(m.sets[source]) :
                               /\ m.sets[source][j] \in Registered(scn)
                               /\ CountOf(effs, [type |-> EffectTypeOf[kind],
                                              trigger_id |->
                                                  scn.trigger_ids[m.sets[source][j]]]) = 1
        /\ \A i \in 1..Len(scn.triggers) :
            LET t == scn.triggers[i]
                declared_edges(m) ==
                    IF t.name \in DOMAIN m.sets THEN Len(m.sets[t.name]) ELSE 0
            IN  Cardinality({j \in 1..Len(t.effects) : t.effects[j].type \in EdgeEffectTypes})
                    = declared_edges(scn.activate_triggers)
                        + declared_edges(scn.deactivate_triggers)

\* A list with the tiebreaker fight and MaxRounds rounds, Tower Battlefield
\* among them, has been compiled and its edges resolved.
C4_Witness ==
    /\ pc = "resolved"
    /\ Len(scn.events) > 2
    /\ \E i \in 2..Len(scn.events) : scn.events[i] = Minigame("Tower Battlefield")
    /\ \E i \in 1..Len(scn.triggers) :
           \E j \in 1..Len(scn.triggers[i].effects) :
               scn.triggers[i].effects[j].type = "deactivate_trigger"

\* The rounds whose triggers setup_scenario has created so far.
CompiledRounds ==
    IF pc \in {"rounds", "resolved"} /\ scn.raised = "none"
    THEN 0..(scn.next_round - 1) ELSE {}

\* The effects of trigger t that change the round counter.
RoundCounterEffects(t) ==
    {j \in 1..Len(t.effects) :
        /\ t.effects[j].type = "change_variable"
        /\ t.effects[j].from_variable = scn.var_ids["round"]}

\* C8: for every compiled round i >= 1 the Increment Round trigger carries
\* exactly one effect on the round counter, and it adds 1; the tiebreaker's
\* Increment Round trigger (i = 0) carries no effect on the round counter, and
\* is declared to deactivate the tiebreaker objective and to activate
\* '[V] Check Winner', each of which the pass turns into exactly one effect.
C8_AdvanceRule ==
    \A i \in CompiledRounds :
        LET inc == TriggerNamed(scn, TriggerNames(i).inc)
            ids == scn.trigger_ids
        IN  IF i # 0
            THEN /\ Cardinality(RoundCounterEffects(inc)) = 1
                 /\ CountOf(inc.effects,
                            EffectChangeVariable(scn.var_ids["round"], ChangeVarOp.add, 1)) = 1
            ELSE /\ RoundCounterEffects(inc) = {}
                 /\ Targets(scn.deactivate_triggers, inc.name) = {TIEBREAKER_OBJ_NAME}
                 /\ Targets(scn.activate_triggers, inc.name) = {CHECK_WINNER_NAME}
                 /\ pc = "resolved" =>
                        /\ CountOf(inc.effects, EffectDeactivate(ids[TIEBREAKER_OBJ_NAME])) = 1
                        /\ CountOf(inc.effects, EffectActivate(ids[CHECK_WINNER_NAME])) = 1
                        /\ Len(inc.effects) = 2

\* A resolved scenario with the tiebreaker and MaxRounds or more rounds, a
\* fight and a minigame among them.
C8_Witness ==
    /\ pc = "resolved"
    /\ scn.next_round > 2
    /\ \E i, j \in 2..Len(scn.events) : IsFight(scn.events[i]) /\ IsMinigame(scn.events[j])
    /\ Len(TriggerNamed(scn, TriggerNames(0).inc).effects) = 2
    /\ Len(TriggerNamed(scn, TriggerNames(2).inc).effects) = 1

\* How many effects of the trigger named `source` deactivate the trigger
\* named `target`.
DeactivatesOf(source, target) ==
    CountOf(TriggerNamed(scn, source).effects, EffectDeactivate(scn.trigger_ids[target]))

\* The variants whose compilers declare the two win triggers mutually
\* deactivating.
MutualVariants == {"Steal the Bacon", "Galley Micro", "Xbow Timer", "Regicide"}

\* The variants whose win triggers are activated by deciding triggers that
\* deactivate one another.
UpstreamVariants == {"Capture the Relic", "DauT Castle", "Castle Siege"}

\* The triggers declared to activate the trigger named `target`.
Activators(target) ==
    {s \in DOMAIN scn.activate_triggers.sets : target \in Targets(scn.activate_triggers, s)}

\* C9 as stated: in every compiled round of every variant the Player 1 Wins
\* trigger carries exactly one deactivate of the round's Player 2 Wins trigger
\* and the Player 2 Wins trigger exactly one deactivate of Player 1 Wins.
C9_MutualDeactivateEveryVariant ==
    pc = "resolved" =>
        \A i \in CompiledRounds :
            LET n == TriggerNames(i)
            IN  /\ DeactivatesOf(n.p1_wins, n.p2_wins) = 1
                /\ DeactivatesOf(n.p2_wins, n.p1_wins) = 1

\* C9, amended: the two win triggers of a round deactivate each other, with
\* exactly one effect each way, in a Fight and in Steal the Bacon, Galley
\* Micro, Xbow Timer and Regicide.  In Tower Battlefield, Capture the Relic,
\* DauT Castle and Castle Siege neither win trigger carries a deactivate of the
\* other; in the last three, every trigger that activates one win trigger is
\* declared to deactivate every trigger that activates the other.
C9_MutualDeactivateByVariant ==
    pc = "resolved" =>
        \A i \in CompiledRounds :
            LET n == TriggerNames(i)
                e == scn.events[i + 1]
                both == IF IsFight(e) \/ e.name \in MutualVariants THEN 1 ELSE 0
            IN  /\ DeactivatesOf(n.p1_wins, n.p2_wins) = both
                /\ DeactivatesOf(n.p2_wins, n.p1_wins) = both
                /\ (IsMinigame(e) /\ e.name \in UpstreamVariants) =>
                       \A a \in Activators(n.p1_wins), b \in Activators(n.p2_wins) :
                           /\ b \in Targets(scn.deactivate_triggers, a)
                           /\ a \in Targets(scn.deactivate_triggers, b)

\* A resolved scenario with a round of either sort.
C9_Witness ==
    /\ pc = "resolved"
    /\ \E i, j \in CompiledRounds :
           /\ IsMinigame(scn.events[i + 1]) /\ scn.events[i + 1].name = "DauT Castle"
           /\ DeactivatesOf(TriggerNames(i).p1_wins, TriggerNames(i).p2_wins) = 0
           /\ IsMinigame(scn.events[j + 1]) /\ scn.events[j + 1].name = "Regicide"
           /\ DeactivatesOf(TriggerNames(j).p1_wins, TriggerNames(j).p2_wins) = 1

\* The prefixes of the round scaffolds a scenario may hold, by round index.
ScaffoldPrefixes == <<"[T]", "[R1]", "[R2]", "[R3]">>

\* The round indices whose scaffold has been emitted: the Begin Round and
\* Increment Round triggers with the prefix of the index are registered.
ScaffoldsEmitted ==
    {i \in 0..(Len(ScaffoldPrefixes) - 1) :
        /\ (ScaffoldPrefixes[i + 1] \o " Begin Round") \in Registered(scn)
        /\ (ScaffoldPrefixes[i + 1] \o " Increment Round") \in Registered(scn)}

\* The event list of one fight followed by Capture the Relic.
FightThenRelics == <<TheFight, Minigame("Capture the Relic")>>

\* C14, as stated: compiling a fight followed by Capture the Relic emits three
\* round scaffolds, of the indices 0, 1 and 2.
C14_ThreeScaffolds ==
    (pc = "resolved" /\ scn.events = FightThenRelics) => ScaffoldsEmitted = {0, 1, 2}

\* C14, amended: a compiled event list has one round scaffold per event, of the
\* indices 0..len-1, the first event being the tiebreaker; a fight followed
\* by Capture the Relic has the two scaffolds of the indices 0 and 1.
C14_OneScaffoldPerEvent ==
    pc = "resolved" =>
        /\ ScaffoldsEmitted = 0..(Len(scn.events) - 1)
        /\ scn.events = FightThenRelics => ScaffoldsEmitted = {0, 1}
        /\ TIEBREAKER_INIT_NAME \in Registered(scn)

\* A fight followed by Capture the Relic has been compiled.
C14_Witness ==
    /\ pc = "resolved"
    /\ scn.events = FightThenRelics

\* The names of the variables in the order of their registration.
VariableNames == [k \in 1..Len(INITIAL_VARIABLES) |-> INITIAL_VARIABLES[k][1]]

\* C17, as stated: the k-th variable registered has the index k, counted from
\* 0, whatever the template's variable table holds.
C17_FromZero ==
    pc # "start" =>
        \A k \in 1..Len(VariableNames) : scn.var_ids[VariableNames[k]] = k - 1

\* C17, amended: the variables get contiguous indices in the order of their
\* registration, starting at the number of variables the template already
\* names: the k-th variable registered, counted from 0, has the index
\* var_count + k.
C17_FromTemplateCount ==
    pc # "start" =>
        /\ DOMAIN scn.var_ids = Range(VariableNames)
        /\ \A k \in 1..Len(VariableNames) :
              scn.var_ids[VariableNames[k]] = scn.var_count + k - 1

\* The variables are registered in a template that names a variable already.
C17_Witness ==
    /\ pc = "named"
    /\ scn.var_count >= 1
    /\ scn.var_ids[VariableNames[1]] = scn.var_count

\* The pairs <<rule, sibling>> of exclusive outcomes declared to deactivate
\* each other: the two checks for a tie, the two checks for the winner, and
\* the two win triggers of the rounds whose compiler declares them so.
ExclusivePairs ==
    LET checks == { <<"[V] Check Tie", "[V] Check Not Tie">>,
                    <<"[V] Check Player 1 Winner", "[V] Check Player 2 Winner">> }
        wins == { <<TriggerNames(i).p1_wins, TriggerNames(i).p2_wins>> :
                     i \in {r \in CompiledRounds :
                               \/ IsFight(scn.events[r + 1])
                               \/ scn.events[r + 1].name \in MutualVariants} }
        pairs == checks \cup wins
    IN  pairs \cup {<<p[2], p[1]>> : p \in pairs}

\* C18, as stated: the effect list of every exclusive-outcome trigger starts
\* with the deactivation of its sibling.
C18_DeactivationsFirst ==
    pc = "resolved" =>
        \A p \in ExclusivePairs :
            LET effs == TriggerNamed(scn, p[1]).effects
            IN  /\ effs # <<>>
                /\ effs[1] = EffectDeactivate(scn.trigger_ids[p[2]])

\* The deactivate effects of an effect list come after all its other effects.
DeactivationsLast(effs) ==
    \A a \in 1..Len(effs), b \in 1..Len(effs) :
        (a < b /\ effs[a].type = "deactivate_trigger") => effs[b].type = "deactivate_trigger"

\* C18, amended: the effect list of every trigger ends with its deactivate
\* effects, after the effects the compiler wrote itself and after the activate
\* effects; every exclusive-outcome trigger has exactly one deactivation of its
\* sibling there, and an effect of another type first.
C18_DeactivationsLast ==
    pc = "resolved" =>
        /\ \A i \in 1..Len(scn.triggers) : DeactivationsLast(scn.triggers[i].effects)
        /\ \A p \in ExclusivePairs :
              LET effs == TriggerNamed(scn, p[1]).effects
              IN  /\ DeactivatesOf(p[1], p[2]) = 1
                  /\ effs[1].type # "deactivate_trigger"

\* A resolved round of a fight: its win trigger adds to the score first and
\* deactivates last.
C18_Witness ==
    /\ pc = "resolved"
    /\ \E i \in CompiledRounds :
          LET effs == TriggerNamed(scn, TriggerNames(i).p1_wins).effects
          IN  /\ IsFight(scn.events[i + 1])
              /\ effs[1].type = "change_variable"
              /\ effs[Len(effs)] = EffectDeactivate(scn.trigger_ids[TriggerNames(i).p2_wins])

\* The groups of triggers of compiled round i that encode alternative outcomes
\* of one decision, by the names their compilers give them.
OutcomeGroups(i) ==
    LET e == scn.events[i + 1]
        prefix == Prefix(i)
        named(suffixes) == {prefix \o s : s \in suffixes}
    IN  IF IsFight(e) THEN {}
        ELSE CASE e.name = "Tower Battlefield" ->
                    { {tb_defeated_name(i, p, k) : p \in 1..2, k \in 0..(MAX_POINTS - 1)} }
               [] e.name = "Capture the Relic" ->
                    { {prefix \o " Capture the Relic " \o ToString(a) \o "-"
                            \o ToString(ROUND_RELICS[r] - a) : a \in 0..ROUND_RELICS[r]}
                        : r \in 1..Len(ROUND_RELICS) }
               [] e.name = "DauT Castle" ->
                    { named({" Player 1 Constructs Castle", " Player 1 Loses Army",
                             " Player 2 Constructs Castle", " Player 2 Loses Army"}) }
               [] e.name = "Castle Siege" ->
                    { named({" Player 1 Loses Castle", " Player 1 Loses Army",
                             " Player 2 Loses Castle", " Player 2 Loses Army"}) }
               [] e.name = "Xbow Timer" ->
                    { named({" Xbow Timer Player 1 Wins Round 1",
                             " Xbow Timer Player 2 Wins Round 1"}) }
               [] OTHER -> {}

\* Every member of group G carries a deactivate of every other member.
GroupDeactivates(G) ==
    \A a \in G : \A b \in G \ {a} : DeactivatesOf(a, b) >= 1

\* C19: once setup_scenario has run, in every group of rules that encode
\* alternative outcomes of one decision (Tower Battlefield "Player p Defeated
\* with k" rules, Capture the Relic "i-j" rules of one sub-phase, the four
\* DauT Castle and Castle Siege outcome rules, the Xbow Timer round-1 win
\* rules) each member's effects deactivate every other member of the group.
C19_GroupsDeactivate ==
    pc = "resolved" =>
        \A i \in CompiledRounds : \A G \in OutcomeGroups(i) : GroupDeactivates(G)

\* The positions of the event list that name a minigame no compiler knows.
Unregistered ==
    {i \in 0..(Len(scn.events) - 1) :
        /\ IsMinigame(scn.events[i + 1])
        /\ scn.events[i + 1].name \notin Range(MINIGAME_NAMES)}

\* The errors that end setup_scenario before its resolution pass: the
\* AssertionError of the dispatch on the minigame's name, or the ValueError
\* of a name registered twice by the events before it.
SetupErrors == {"AssertionError", "ValueError"}

C20_NeverCompiled ==
    Unregistered # {} =>
        /\ pc # "resolved"
        /\ pc = "aborted" => scn.raised \in SetupErrors
        /\ pc = "rounds" => Unregistered = {0} /\ scn.next_round = 0

C20_Step ==
    (Unregistered # {} /\ pc \in {"named", "rounds"}) =>
        \/ pc' = "aborted" /\ scn'.raised \in SetupErrors
        \/ pc = "named" /\ pc' = "rounds" /\ Unregistered = {0}

\* C20: an event list naming a minigame that has no compiler is rejected by
\* setup_scenario with a fatal error, wherever the event stands in the list
\* (index 0 included): the step that reaches the event raises an error, no
\* later step runs, and compilation never reaches its end.
C20_UnregisteredRejected == [](C20_NeverCompiled) /\ [][C20_Step]_vars

\* An aborted compilation of a list of two events whose tiebreaker slot (index
\* 0) names the unknown minigame: it was rejected by _setup_rounds.
C20_Witness ==
    /\ pc = "aborted"
    /\ Len(scn.events) = 2
    /\ Unregistered = {0}
    /\ scn.raised = "AssertionError"

\* How many effects of the trigger named source activate the trigger named
\* target.
ActivatesOf(source, target) ==
    CountOf(TriggerNamed(scn, source).effects, EffectActivate(scn.trigger_ids[target]))

\* Both win triggers of compiled round i are emitted disabled.
WinsStartDisabled(i) ==
    /\ ~TriggerNamed(scn, TriggerNames(i).p1_wins).enabled
    /\ ~TriggerNamed(scn, TriggerNames(i).p2_wins).enabled

\* Begin Round of compiled round i activates both win triggers of the round.
BeginActivatesWins(i) ==
    /\ ActivatesOf(TriggerNames(i).begin, TriggerNames(i).p1_wins) >= 1
    /\ ActivatesOf(TriggerNames(i).begin, TriggerNames(i).p2_wins) >= 1

\* C27, as stated: in every compiled round of every variant Begin Round
\* activates the round's two win triggers, and both are emitted disabled.
C27_BeginActivatesWinsEveryVariant ==
    pc = "resolved" =>
        \A i \in CompiledRounds : WinsStartDisabled(i) /\ BeginActivatesWins(i)

\* The variants whose win triggers are activated later than Begin Round: by
\* the begin of the second sub-round (Xbow Timer) or by deciding triggers.
DeferredVariants == UpstreamVariants \cup {"Xbow Timer"}

\* C27, as the builder has it: both win triggers of every compiled round are
\* emitted disabled and each is activated by some trigger; Begin Round is the
\* activator of both in fights and in the minigames outside DeferredVariants,
\* and of neither in the DeferredVariants, where other triggers activate them.
C27_WinsActivatedInRound ==
    pc = "resolved" =>
        \A i \in CompiledRounds :
            LET n == TriggerNames(i)
                e == scn.events[i + 1]
                deferred == IsMinigame(e) /\ e.name \in DeferredVariants
            IN  /\ WinsStartDisabled(i)
                /\ Activators(n.p1_wins) # {} /\ Activators(n.p2_wins) # {}
                /\ ~deferred => BeginActivatesWins(i)
                /\ deferred => /\ n.begin \notin Activators(n.p1_wins)
                               /\ n.begin \notin Activators(n.p2_wins)

\* A resolved scenario with a round whose Begin Round activates both win
\* triggers and a round whose Begin Round activates neither.
C27_Witness ==
    /\ pc = "resolved"
    /\ \E i, j \in CompiledRounds :
           /\ BeginActivatesWins(i) /\ WinsStartDisabled(i)
           /\ IsMinigame(scn.events[j + 1]) /\ scn.events[j + 1].name = "Xbow Timer"
           /\ ~BeginActivatesWins(j) /\ WinsStartDisabled(j)
           /\ Activators(TriggerNames(j).p1_wins) # {}

\* C39: for every name of INITIAL_VARIABLES the effect of '[I] Initialize
\* Variables' that seeds it writes the variable index _name_variables gave
\* the name, whatever the number of variables the template already holds.
C39_SeedWritesRegisteredIndex ==
    "[I] Initialize Variables" \in DOMAIN scn.trigger_ids =>
        LET seeds == TriggerNamed(scn, "[I] Initialize Variables").effects
        IN  /\ Len(seeds) = Len(INITIAL_VARIABLES)
            /\ \A i \in 1..Len(INITIAL_VARIABLES) :
                  /\ seeds[i].type = "change_variable"
                  /\ seeds[i].quantity = INITIAL_VARIABLES[i][2]
                  /\ seeds[i].from_variable = scn.var_ids[INITIAL_VARIABLES[i][1]]

\* The event list puts a minigame in the tiebreaker's place.
MinigameFirst == IsMinigame(scn.events[1])

\* How many triggers carry the name of the tiebreaker's Initialize Round.
TiebreakerInits ==
    Cardinality({i \in 1..Len(scn.triggers) : scn.triggers[i].name = TriggerNames(0).init})

\* A list with a minigame first never gets a round compiled, and a list
\* compiled to the end has a fight first and one round of index 0.
C37_NeverCompiled ==
    /\ MinigameFirst =>
          /\ pc # "resolved"
          /\ CompiledRounds = {}
          /\ pc = "aborted" => scn.raised \in SetupErrors
    /\ pc = "resolved" =>
          /\ IsFight(scn.events[1])
          /\ 0 \in CompiledRounds
          /\ TiebreakerInits = 1

\* With a minigame first, every step of setup_scenario but the naming of the
\* variables and the initial triggers ends in an error.
C37_Step ==
    (MinigameFirst /\ pc \in {"named", "rounds"}) =>
        \/ pc' = "aborted" /\ scn'.raised \in SetupErrors
        \/ pc = "named" /\ pc' = "rounds" /\ scn'.next_round = 0

\* C37: the tiebreaker (event index 0) must be a fight: an event list whose
\* first event is a minigame of any name is rejected with an error during
\* setup_scenario, and exactly one compiled round has index 0.
C37_TiebreakerIsFight == [](C37_NeverCompiled) /\ [][C37_Step]_vars

\* A list with a registered minigame first was rejected by the minigame's
\* own compiler, after the initial triggers were added.
C37_Witness ==
    /\ pc = "aborted"
    /\ scn.events[1] = Minigame("Regicide")
    /\ scn.raised = "AssertionError"
    /\ scn.next_round = 1
-----------------------------------------------------------------------------
(* Claims about the emitted scenario run by the engine.                    *)

\* The trigger that plays a part in round r has fired.
FiredRole(r, role) ==
    /\ PositionOf(game.prog, r, role) # 0
    /\ PositionOf(game.prog, r, role) \in game.fired

\* The trigger with a name has fired.
FiredNamed(name) ==
    /\ NamedPosition(game.prog, name) # 0
    /\ NamedPosition(game.prog, name) \in game.fired

\* The position of the trigger a step fires, 0 for a step that fires none.
FiredBy(g, h) ==
    IF h.cursor = 0 \/ h.cursor = g.cursor THEN 0
    ELSE IF g.order = "asc" THEN h.cursor ELSE Len(g.prog.triggers) + 1 - h.cursor

\* C10: in every round of every variant at most one of Player 1 Wins Round
\* and Player 2 Wins Round fires, also when both guards become true on the
\* same tick.
C10_AtMostOneWinFires ==
    game.loaded =>
        \A r \in 0..game.prog.num_rounds :
            ~(FiredRole(r, "p1_wins") /\ FiredRole(r, "p2_wins"))

RoundCounter == game.vals[game.prog.round_var]

ScoreDifference == game.vals[game.prog.difference_var]

\* The step fires the trigger with a name.
FiresNamed(name) ==
    /\ FiredBy(game, game') # 0
    /\ FiredBy(game, game') = NamedPosition(game.prog, name)

\* The step fires a trigger that plays a part in some round.
FiresRole(role) ==
    /\ FiredBy(game, game') # 0
    /\ game.prog.roles[FiredBy(game, game')][2] = role

\* The round of the trigger the step fires.
FiresRound == game.prog.roles[FiredBy(game, game')][1]

C15_Range ==
    game.loaded =>
        /\ RoundCounter \in 0..(game.prog.num_rounds + 1)
        /\ ~FiredNamed("[I] Initialize Start Timer") => RoundCounter = 0

C15_Step ==
    (game.loaded /\ game'.loaded) =>
        /\ RoundCounter' # RoundCounter =>
              /\ RoundCounter' = RoundCounter + 1
              /\ \/ FiresNamed("[I] Initialize Start Timer")
                 \/ FiresRole("inc") /\ FiresRound >= 1
        /\ FiresRole("inc") => FiredBy(game, game') \notin game.fired
        /\ (FiresRole("inc") /\ FiresRound = 0) => RoundCounter' = RoundCounter
        /\ FiredBy(game, game') \in game.prog.tiebreaker => RoundCounter' = RoundCounter

\* C15: the round counter stays within 0..N+1; it is 0 until the start timer
\* fires, it changes only by one, when the start timer or the Increment Round
\* trigger of a regular round fires, each Increment Round trigger fires at
\* most once, and no trigger of the tiebreaker changes it.
C15_RoundCounter == [](C15_Range) /\ [][C15_Step]_vars

\* All regular rounds of a game of MaxRounds rounds are over.
C15_Witness ==
    /\ game.loaded
    /\ game.prog.num_rounds = MaxRounds
    /\ RoundCounter = MaxRounds + 1
    /\ \A r \in 1..MaxRounds : FiredRole(r, "inc")

\* The trigger with a name is the last one that fired in the running visit.
JustFired(name) ==
    /\ game.cursor # 0
    /\ (IF game.order = "asc" THEN game.cursor
        ELSE Len(game.prog.triggers) + 1 - game.cursor) = NamedPosition(game.prog, name)

\* No trigger of the tiebreaker is enabled or has fired.
TiebreakerQuiet ==
    /\ game.enabled \cap game.prog.tiebreaker = {}
    /\ game.fired \cap game.prog.tiebreaker = {}

C11_After ==
    game.loaded =>
        (FiredRole(0, "init") =>
            FiredNamed("[V] Rounds Completed") /\ FiredNamed("[V] Check Tie"))

C11_Step ==
    (game.loaded /\ game'.loaded) =>
        /\ FiresNamed("[V] Rounds Completed") => RoundCounter = game.prog.num_rounds + 1
        /\ FiresNamed("[V] Check Tie") => ScoreDifference = 0

C11_NoTie ==
    (game.loaded /\ JustFired("[V] Rounds Completed") /\ ScoreDifference # 0)
        => []TiebreakerQuiet

\* C11: the tiebreaker's Initialize Round trigger fires only after '[V] Rounds
\* Completed' has fired, with the round counter at N+1, and '[V] Check Tie' has
\* fired, with score-difference at 0; when the rounds complete with a nonzero
\* score-difference no trigger of the tiebreaker ever fires.
C11_TiebreakerOnlyOnTie == [](C11_After) /\ [][C11_Step]_vars /\ [](C11_NoTie)

\* The tiebreaker is launched after a regular round that ended in a tie.
C11_Witness ==
    /\ game.loaded
    /\ game.prog.num_rounds >= 1
    /\ FiredRole(0, "begin")

\* The regular rounds whose Initialize Round trigger has fired, in the order
\* of the firings.
RegularInits == SelectSeq(game.inits, LAMBDA r : r >= 1)

\* The conditions of the tiebreaker's Initialize trigger.
TiebreakerInitConditions ==
    game.prog.triggers[PositionOf(game.prog, 0, "init")].conditions

C7_Order ==
    game.loaded =>
        /\ Len(RegularInits) <= game.prog.num_rounds
        /\ \A k \in 1..Len(RegularInits) : RegularInits[k] = k
        /\ \A j \in 1..Len(TiebreakerInitConditions) :
              TiebreakerInitConditions[j].type # "variable_value"
        /\ (\E k \in 1..Len(game.inits) : game.inits[k] = 0) => FiredNamed("[V] Check Tie")

C7_Step ==
    (game.loaded /\ game'.loaded) =>
        ((FiresRole("init") /\ FiresRound >= 1) => RoundCounter = FiresRound)

\* A round that has started comes to its end.
C7_Outcome(r) == [](FiredRole(r, "init") => <>FiredRole(r, "cleanup"))

C7_AllStarted ==
    game.loaded /\ \A r \in 1..game.prog.num_rounds : FiredRole(r, "init")

\* C7: the Initialize Round triggers of the rounds 1..N fire once each and in
\* increasing order, each with the round counter at its own index; the
\* tiebreaker's Initialize trigger has no condition on a variable and fires
\* only after '[V] Check Tie'; and when every started round comes to its end,
\* all of the rounds 1..N are started.
C7_SequenceComplete ==
    /\ [](C7_Order)
    /\ [][C7_Step]_vars
    /\ (C7_Outcome(1) /\ C7_Outcome(2)) => <>C7_AllStarted

\* The second of two regular rounds has started after the first.
C7_Witness ==
    /\ game.loaded
    /\ game.prog.num_rounds = 2
    /\ RegularInits = <<1, 2>>

\* The value of the variable with a name.
ValueOf(name) == game.vals[game.prog.var_ids[name]]

\* The effect changes the variable with a name by an operation.
Changes(e, name, operation) ==
    /\ e.type = "change_variable"
    /\ e.from_variable = game.prog.var_ids[name]
    /\ e.operation = operation

\* The effect writes the variable with a name.
Writes(e, name) == e.type = "change_variable" /\ e.from_variable = game.prog.var_ids[name]

\* In an effect list every addition to a player's score is followed at once
\* by the same change of score-difference, with the player's sign, and
\* nothing else writes one of the three variables.
ScoresPaired(effs) ==
    \A j \in 1..Len(effs) :
        /\ Writes(effs[j], "p1-score") =>
              /\ effs[j].operation = ChangeVarOp.add
              /\ j < Len(effs)
              /\ Changes(effs[j + 1], "score-difference", ChangeVarOp.add)
              /\ effs[j + 1].quantity = effs[j].quantity
        /\ Writes(effs[j], "p2-score") =>
              /\ effs[j].operation = ChangeVarOp.add
              /\ j < Len(effs)
              /\ Changes(effs[j + 1], "score-difference", ChangeVarOp.subtract)
              /\ effs[j + 1].quantity = effs[j].quantity
        /\ Writes(effs[j], "score-difference") =>
              /\ j > 1
              /\ Writes(effs[j - 1], "p1-score") \/ Writes(effs[j - 1], "p2-score")

\* C24: in every reachable state score-difference is p1-score minus p2-score;
\* every trigger but the one that initializes the variables changes a
\* player's score only together with the same signed change of
\* score-difference, in one firing, and writes none of the three alone.
C24_DifferenceOfScores ==
    game.loaded =>
        /\ ValueOf("score-difference") = ValueOf("p1-score") - ValueOf("p2-score")
        /\ \A i \in 1..Len(game.prog.triggers) :
              game.prog.names[i] # "[I] Initialize Variables"
                  => ScoresPaired(game.prog.triggers[i].effects)

\* Both players have scored and one is ahead.
C24_Witness ==
    /\ game.loaded
    /\ ValueOf("p1-score") > 0
    /\ ValueOf("p2-score") > 0
    /\ ValueOf("score-difference") # 0

\* The step fires a per-unit point trigger.
FiresUnitPoints ==
    /\ FiredBy(game, game') # 0
    /\ game.prog.unit_owner[FiredBy(game, game')] # 0

\* The win trigger of a player.
WinRole(p) == IF p = 1 THEN "p1_wins" ELSE "p2_wins"

\* A per-unit point trigger fires at most once, and one that values a unit of
\* a player (so awards the other) never fires once that player's win trigger
\* of the round, or the round's cleanup after it, has fired.
C25_Step ==
    (game.loaded /\ game'.loaded /\ FiresUnitPoints) =>
        LET i == FiredBy(game, game')
            r == game.prog.rounds[i]
            p == game.prog.unit_owner[i]
        IN  /\ i \notin game.fired
            /\ ~FiredRole(r, WinRole(p))
            /\ FiredRole(r, "cleanup") => FiredRole(r, WinRole(other_player(p)))

\* C25: in a fight round, once a win trigger has fired none of the round's
\* per-unit point triggers that award the loser fires afterwards, so the
\* removal of the winner's surviving units by the cleanup awards nothing; and
\* every per-unit point trigger fires at most once in the whole game.
C25_NoPointsAfterWin == [][C25_Step]_vars

\* A fight round won by player 1 is over: the trigger for the loser's unit has
\* fired, the one for the winner's surviving unit never did.
C25_Witness ==
    /\ game.loaded
    /\ \E r \in 1..game.prog.num_rounds :
          /\ game.prog.kinds[r + 1] = "Fight"
          /\ FiredRole(r, "p1_wins")
          /\ FiredRole(r, "inc")
          /\ \E i \in game.fired : game.prog.unit_owner[i] = 2 /\ game.prog.rounds[i] = r
          /\ \A i \in game.fired : ~(game.prog.unit_owner[i] = 1 /\ game.prog.rounds[i] = r)

\* What a player has gained since the last Begin Round.
GainOf(p) ==
    ValueOf(IF p = 1 THEN "p1-score" ELSE "p2-score") - game.begun.scores[p]

\* The points of all the units of a player in the fight of the input.
UnitPointsOf(p) ==
    SumPoints(TheFight.points, IF p = 1 THEN TheFight.p1_units ELSE TheFight.p2_units)

\* The round begun last is a fight.
FightBegun ==
    /\ game.loaded
    /\ game.begun.round >= 0
    /\ game.prog.kinds[game.begun.round + 1] = "Fight"

EnabledNamed(name) == NamedPosition(game.prog, name) \in game.enabled

\* The step sets the terminal flag of player p: the variable was not 1 and
\* is 1 afterwards.
SetsFlag(name) == ValueOf(name) # 1 /\ ValueOf(name)' = 1

\* At most one terminal flag is 1, at most one of the Declare Victory
\* triggers is ever armed, and a declared victor has its own flag set and
\* the score difference on its side.
C28_OneWinner ==
    game.loaded =>
        /\ ValueOf("p1-wins") \in {0, 1} /\ ValueOf("p2-wins") \in {0, 1}
        /\ ~(ValueOf("p1-wins") = 1 /\ ValueOf("p2-wins") = 1)
        /\ ~(EnabledNamed("[V] Declare Player 1 Victory")
                /\ EnabledNamed("[V] Declare Player 2 Victory"))
        /\ game.victor = 1 =>
               /\ ValueOf("p1-wins") = 1 /\ ScoreDifference > 0
               /\ ~EnabledNamed("[V] Declare Player 2 Victory")
        /\ game.victor = 2 =>
               /\ ValueOf("p2-wins") = 1 /\ ScoreDifference < 0
               /\ ~EnabledNamed("[V] Declare Player 1 Victory")

\* A terminal flag is set by its Check Winner trigger only, in a state where
\* the score difference has the winner's sign, and a victory is declared by
\* the Declare Victory trigger of the player, once.
C28_Step ==
    (game.loaded /\ game'.loaded) =>
        /\ SetsFlag("p1-wins") =>
               FiresNamed("[V] Check Player 1 Winner") /\ ScoreDifference > 0
        /\ SetsFlag("p2-wins") =>
               FiresNamed("[V] Check Player 2 Winner") /\ ScoreDifference < 0
        /\ \A k \in 1..2 :
               (game.victor # k /\ game'.victor = k) =>
                   /\ game.victor = NoVictor
                   /\ FiresNamed(IF k = 1 THEN "[V] Declare Player 1 Victory"
                                          ELSE "[V] Declare Player 2 Victory")

\* C28: in every execution at most one of the flags p1-wins and p2-wins is
\* ever set to 1, at most one of the two Declare Victory triggers ever fires,
\* and p1-wins is set only where score-difference > 0, p2-wins only where
\* score-difference < 0.
C28_ExactlyOneVictor == [](C28_OneWinner) /\ [][C28_Step]_vars

\* Player 2 has been declared the winner after a tiebreaker.
C28_Witness ==
    /\ game.loaded /\ game.victor = 2 /\ ValueOf("p2-wins") = 1
    /\ FiredRole(0, "inc")

\* A victory has been declared: by C28 that is the firing of exactly one
\* Declare Victory trigger.
VictoryDeclared == game.loaded /\ game.victor # NoVictor

\* C29: under weak fairness of the firing of triggers, if every started
\* round, the tiebreaker among them, comes to its outcome and cleanup, then
\* eventually one Declare Victory trigger has fired, also when the regular
\* rounds end level and the tiebreaker leaves the score difference at 0.
C29_VictoryDeclared ==
    (C7_Outcome(0) /\ C7_Outcome(1) /\ C7_Outcome(2)) => <>VictoryDeclared

\* The variable that holds a player's battlefield points.
BattlefieldVar(p) ==
    game.prog.var_ids[IF p = 1 THEN "p1-battlefield-points" ELSE "p2-battlefield-points"]

\* The trigger at position i, fired while variable x holds v, leaves no more
\* than MAX_POINTS in x: v passes the conditions the trigger puts on x only
\* if the trigger's changes of x stay within the bound.
KeepsBound(i, x, v) ==
    LET t == game.prog.triggers[i]
        changes == SelectSeq(t.effects,
                             LAMBDA e : e.type = "change_variable" /\ e.from_variable = x)
        passes_x == \A j \in 1..Len(t.conditions) :
                        (t.conditions[j].type = "variable_value"
                            /\ t.conditions[j].variable = x)
                        => (Compare(t.conditions[j].comparison, v,
                                    t.conditions[j].amount_or_quantity)
                               # t.conditions[j].inverted)
    IN  passes_x => RunChanges(game.vals, changes, 1)[x] - game.vals[x] + v <= MAX_POINTS

\* The positions of the triggers that change a variable.
Changers(x) ==
    {i \in 1..Len(game.prog.triggers) :
        /\ game.prog.names[i] # "[I] Initialize Variables"
        /\ \E j \in 1..Len(game.prog.triggers[i].effects) :
              /\ game.prog.triggers[i].effects[j].type = "change_variable"
              /\ game.prog.triggers[i].effects[j].from_variable = x}

\* The battlefield points stay within 0..MAX_POINTS, and before the first
\* round starts no trigger that adds to them can pass MAX_POINTS from any
\* value within the bound.
C36_Bounded ==
    game.loaded =>
        /\ \A p \in 1..2 : game.vals[BattlefieldVar(p)] \in 0..MAX_POINTS
        /\ game.inits = <<>> =>
              \A p \in 1..2 : \A i \in Changers(BattlefieldVar(p)) :
                  \A v \in 0..MAX_POINTS : KeepsBound(i, BattlefieldVar(p), v)

\* The player whose defeat the trigger at position i decides in a Tower
\* Battlefield round, 0 for any other trigger.
DefeatedPlayer(i) ==
    LET r == game.prog.rounds[i]
        hits == IF r < 1 \/ game.prog.kinds[r + 1] # "Tower Battlefield"
                   \/ game.prog.triggers[i].looping
                   \/ game.prog.roles[i][2] # "none"
                THEN {}
                ELSE {p \in 1..2 : \E k \in 0..(MAX_POINTS - 1) :
                         game.prog.names[i] = tb_defeated_name(r, p, k)}
    IN  IF hits = {} THEN 0 ELSE CHOOSE p \in hits : TRUE

\* A step that fires a defeated trigger leaves the opponent with MAX_POINTS
\* battlefield points and a gain of MAX_POINTS since the round began.
C36_Step ==
    (game.loaded /\ game'.loaded /\ FiredBy(game, game') # 0
        /\ DefeatedPlayer(FiredBy(game, game')) # 0) =>
        LET other == other_player(DefeatedPlayer(FiredBy(game, game')))
        IN  /\ game'.vals[BattlefieldVar(other)] = MAX_POINTS
            /\ game'.vals[game.prog.var_ids[IF other = 1 THEN "p1-score" ELSE "p2-score"]]
                  - game'.begun.scores[other] = MAX_POINTS

\* C36: in Tower Battlefield, with one trigger firing at a time,
\* p1-battlefield-points and p2-battlefield-points never exceed 100, so the
\* guards '== 100' of the win triggers cannot be passed over; and when a
\* 'Player p Defeated with k points' trigger fires the opponent's battlefield
\* points become exactly 100 and the opponent's score for the round totals
\* exactly 100.
C36_BattlefieldPoints == [](C36_Bounded) /\ [][C36_Step]_vars

\* Player 1 held the flag for one award and was then defeated: player 2 has
\* the full points of the round.
C36_Witness ==
    /\ game.loaded
    /\ game.begun.round >= 1
    /\ game.prog.kinds[game.begun.round + 1] = "Tower Battlefield"
    /\ game.vals[BattlefieldVar(1)] = TOWER_AWARD_POINTS
    /\ game.vals[BattlefieldVar(2)] = MAX_POINTS
    /\ GainOf(2) = MAX_POINTS

\* The positions of the triggers an effect list activates or deactivates.
Switched(i, type) ==
    {game.prog.triggers[i].effects[j].trigger_id + 1 :
        j \in {h \in 1..Len(game.prog.triggers[i].effects) :
                  game.prog.triggers[i].effects[h].type = type}}

\* The positions of the objectives of all the rounds, and of the header that
\* counts the rounds.
RoundObjectivePositions == UNION {game.prog.objectives[r] : r \in 1..game.prog.num_rounds}

HeaderPosition == NamedPosition(game.prog, ROUND_OBJ_NAME)

\* Of the objectives and the header, Initialize Round of round r activates
\* the objectives of round r (and the header in round 1) and deactivates
\* none; Cleanup Round of round r deactivates the objectives of round r (and
\* the header in the last round) and activates none; no other trigger
\* switches any of them.  The triggers are those of the loaded scenario, which
\* no step changes.
C34_Edges ==
    LET N == game.prog.num_rounds
        scoped == RoundObjectivePositions \cup {HeaderPosition}
    IN  /\ HeaderPosition # 0
        /\ \A r \in 1..N :
              LET init == PositionOf(game.prog, r, "init")
                  cleanup == PositionOf(game.prog, r, "cleanup")
              IN  /\ game.prog.objectives[r] # {}
                  /\ Switched(init, "activate_trigger") \cap scoped
                        = game.prog.objectives[r]
                             \cup (IF r = 1 THEN {HeaderPosition} ELSE {})
                  /\ Switched(init, "deactivate_trigger") \cap scoped = {}
                  /\ Switched(cleanup, "deactivate_trigger") \cap scoped
                        = game.prog.objectives[r]
                             \cup (IF r = N THEN {HeaderPosition} ELSE {})
                  /\ Switched(cleanup, "activate_trigger") \cap scoped = {}
        /\ \A i \in 1..Len(game.prog.triggers) :
              (game.prog.roles[i][1] < 1 \/ game.prog.roles[i][2] \notin {"init", "cleanup"})
                  => /\ Switched(i, "activate_trigger") \cap scoped = {}
                     /\ Switched(i, "deactivate_trigger") \cap RoundObjectivePositions = {}
                     /\ HeaderPosition \in Switched(i, "deactivate_trigger")
                           => N = 0 /\ game.prog.roles[i] = <<0, "cleanup">>

\* An objective of round r is enabled only after Initialize Round of round r
\* has fired and before its Cleanup Round has; the header only after
\* Initialize Round of round 1 and before Cleanup Round of the last round.
C34_Scoped ==
    LET N == game.prog.num_rounds
    IN  /\ \A r \in 1..N :
              game.prog.objectives[r] \cap game.enabled # {}
                  => /\ FiredRole(r, "init")
                     /\ ~FiredRole(r, "cleanup")
                     /\ \A s \in (1..N) \ {r} :
                           game.prog.objectives[s] \cap game.enabled = {}
        /\ HeaderPosition \in game.enabled
              => FiredRole(1, "init") /\ ~FiredRole(N, "cleanup")

\* C34: for every regular round i the objectives Initialize Round i
\* activates are the ones Cleanup Round i deactivates, so that in every
\* execution the objectives of round i are enabled only between the two and
\* the objectives of two rounds are never enabled together; the 'Round k/N'
\* header is activated only by Initialize Round 1 and deactivated only by
\* Cleanup Round N.
C34_ObjectivesScoped ==
    game.loaded => /\ game.fired = {} => C34_Edges
                   /\ C34_Scoped

\* The second of two rounds is being played: its objectives and the header
\* are shown, those of the first round are not.
C34_Witness ==
    /\ game.loaded
    /\ game.prog.num_rounds = 2
    /\ FiredRole(1, "cleanup")
    /\ FiredRole(2, "begin")
    /\ game.prog.objectives[2] \subseteq game.enabled
    /\ game.prog.objectives[1] \cap game.enabled = {}
    /\ HeaderPosition \in game.enabled

\* The four triggers that carry a round from its start to the next round.
SequenceRoles == <<"init", "begin", "cleanup", "inc">>

\* A step that fires one of the four sequence triggers of a round fires it for
\* the first time, after the one before it in the sequence has fired, and an
\* Increment Round of a regular round adds one to the round counter.
C33_Step ==
    (game.loaded /\ game'.loaded /\ FiredBy(game, game') # 0) =>
        \A k \in 1..Len(SequenceRoles) :
            FiresRole(SequenceRoles[k]) =>
                /\ FiredBy(game, game') \notin game.fired
                /\ k > 1 => FiredRole(FiresRound, SequenceRoles[k - 1])
                /\ (k = 4 /\ FiresRound >= 1) => RoundCounter' = RoundCounter + 1

\* The round counter has moved on once for every regular round that is over,
\* and once for the start of the game.
C33_Counter ==
    game.loaded =>
        RoundCounter =
            Cardinality({r \in 1..game.prog.num_rounds : FiredRole(r, "inc")})
                + (IF FiredNamed("[I] Initialize Start Timer") THEN 1 ELSE 0)

\* C33: in every execution each of a round's Initialize Round, Begin Round,
\* Cleanup Round and Increment Round triggers fires at most once and in that
\* order, also in the variants where several triggers activate Cleanup Round
\* (the win triggers, 'All Boar are Dead', the Regicide stalemate, 'Loses
\* Monasteries'); so the round counter is incremented at most once a round.
C33_OnceInOrder == [][C33_Step]_vars /\ [](C33_Counter)

\* A condition that tests the population of a player or counts the objects of
\* a player.
TestsPlayer(c) ==
    /\ IsPop(c) \/ c.type = "object_in_area"
    /\ c.player \in 1..2

\* The places in the effect list of the trigger at position i of the effects
\* that hand an object from Gaia to a player, and of the effects that
\* activate a trigger.
Handoffs(i) ==
    {j \in 1..Len(game.prog.triggers[i].effects) :
        /\ game.prog.triggers[i].effects[j].type = "change_ownership"
        /\ game.prog.triggers[i].effects[j].player_source = 0}

Activations(i) ==
    {j \in 1..Len(game.prog.triggers[i].effects) :
        game.prog.triggers[i].effects[j].type = "activate_trigger"}

\* Begin Round of every round hands objects to both players, and in every
\* effect list the handoffs stand before the activations.  The triggers are
\* those of the loaded scenario, which no step changes.
C32_Order ==
    /\ \A r \in 0..game.prog.num_rounds :
          LET begin == PositionOf(game.prog, r, "begin")
          IN  /\ begin # 0
              /\ \A p \in 1..2 :
                    \E j \in Handoffs(begin) :
                        game.prog.triggers[begin].effects[j].player_target = p
              /\ Activations(begin) # {}
    /\ \A i \in 1..Len(game.prog.triggers) :
          \A a \in Handoffs(i) : \A b \in Activations(i) : a < b

\* An enabled trigger of a round that tests a player's population or objects
\* finds the round's Begin Round fired.
C32_Scoped ==
    \A i \in game.enabled :
        (/\ game.prog.rounds[i] >= 0
         /\ HasCondition(game.prog.triggers[i], TestsPlayer))
            => FiredRole(game.prog.rounds[i], "begin")

\* C32: in every round a trigger whose conditions test a player's population
\* or count a player's objects (the win triggers, the 'Loses Army' triggers,
\* the per-unit point triggers) is never enabled before the round's handoff of
\* the objects from Gaia has run: the change_ownership effects of Begin Round
\* stand before all its activate effects.
C32_HandoffBeforeGuards ==
    game.loaded => /\ game.fired = {} => C32_Order
                   /\ C32_Scoped

\* A round is being played: Begin Round has fired, the players have their
\* units and a win trigger that tests a population is enabled.
C32_Witness ==
    /\ game.loaded
    /\ FiredRole(1, "begin")
    /\ PositionOf(game.prog, 1, "p1_wins") \in game.enabled
    /\ HasCondition(game.prog.triggers[PositionOf(game.prog, 1, "p1_wins")], TestsPlayer)
    /\ \A p \in 1..2 : game.pop[p] = MaxPop

\* The center of the area of the event of round r.
CenterOfRound(r) ==
    IF game.prog.kinds[r + 1] = "Fight" THEN <<FIGHT_CENTER_X, FIGHT_CENTER_Y>>
    ELSE MINIGAME_CENTERS[game.prog.kinds[r + 1]]

\* A step that fires a Begin Round finds both players' map revealers around
\* the center of the round's event.
C31_Step ==
    (game.loaded /\ game'.loaded /\ FiredBy(game, game') # 0 /\ FiresRole("begin")) =>
        \A p \in 1..2 : game.shown.at[p] = CenterOfRound(FiresRound)

\* C31: for every sequence of events (fights and minigames in any order, the
\* tiebreaker fight run after the last round) the map revealers of the
\* current event's area are on the map whenever a round's Begin Round fires,
\* and revealers are never created twice without '[I] Hide Map Revealers'
\* firing in between.
C31_RevealersShown == [][C31_Step]_vars /\ [](game.loaded => ~game.shown.doubled)
-----------------------------------------------------------------------------
(* Claims about the construction of fights.                                *)

\* The Fight objects constructed so far.
FightsMade == IF fight.made \in {"accepted", "rejected"} THEN fight.events ELSE <<>>

\* C12: in every Fight the constructor accepts, p1_bonus plus the points of
\* Player 2's units is MAX_POINTS, p2_bonus plus the points of Player 1's
\* units is MAX_POINTS, and neither bonus is negative.
C12_BonusesComplement ==
    \A k \in 1..Len(FightsMade) :
        LET f == FightsMade[k]
        IN  /\ f.p1_bonus + SumPoints(f.points, f.p2_units) = MAX_POINTS
            /\ f.p2_bonus + SumPoints(f.points, f.p1_units) = MAX_POINTS
            /\ f.p1_bonus >= 0
            /\ f.p2_bonus >= 0

\* A fight is accepted whose Player 1 units are worth all of MAX_POINTS.
C12_Witness ==
    /\ fight.made = "accepted"
    /\ Len(fight.events) = 2
    /\ fight.events[1].p2_bonus = 0
    /\ fight.events[1].p1_bonus > 0

\* Every unit of the list has a point value.
AllValued(points, ulst) == \A k \in 1..Len(ulst) : ulst[k] \in DOMAIN points

\* The units of the list are worth more than MAX_POINTS together.
OverBudget(points, ulst) ==
    /\ AllValued(points, ulst)
    /\ SumPoints(points, ulst) >= MAX_POINTS + 1

\* C13: a fight in which one side's units are worth MAX_POINTS + 1 or more
\* is rejected when its Fight object is constructed, and then no ScnData
\* exists that could hold a trigger, an edge or a variable; a fight whose
\* sides are worth MAX_POINTS or less, exactly MAX_POINTS included, is
\* accepted.
C13_OverBudgetRejected ==
    fight.made \in {"accepted", "rejected"} =>
        /\ (/\ fight.p1_units # <<>>
            /\ \/ OverBudget(fight.points, fight.p1_units)
               \/ OverBudget(fight.points, fight.p2_units)) =>
              /\ fight.made = "rejected"
              /\ pc = "aborted"
              /\ scn = NoScnData
        /\ (/\ fight.p1_units # <<>>
            /\ AllValued(fight.points, fight.p1_units)
            /\ AllValued(fight.points, fight.p2_units)
            /\ SumPoints(fight.points, fight.p1_units) <= MAX_POINTS
            /\ SumPoints(fight.points, fight.p2_units) <= MAX_POINTS) =>
              fight.made = "accepted"

\* A fight was rejected for units worth MAX_POINTS + 1.
C13_Witness ==
    /\ fight.made = "rejected"
    /\ AllValued(fight.points, fight.p1_units)
    /\ AllValued(fight.points, fight.p2_units)
    /\ SumPoints(fight.points, fight.p1_units) = MAX_POINTS + 1
    /\ fight.p2_units # <<>>
    /\ SumPoints(fight.points, fight.p2_units) <= MAX_POINTS
-----------------------------------------------------------------------------
(* Claims about the functions of the modules event and fight.              *)

\* A FightData constructor has returned or raised.
FightDataDone == call.fn \in {"event.FightData", "fight.FightData"} /\ call.returned

\* The input of the call names only technologies and units that exist and
\* values every unit at more than nothing.
ValidFightData ==
    /\ \A k \in 1..Len(call.techs) : call.techs[k] # InvalidName
    /\ \A u \in DOMAIN call.points : u # InvalidName /\ call.points[u] > 0

\* C22: constructing a FightData raises ValueError for every input whose point
\* table holds a value that is zero or negative or a key that is not a unit
\* name, or whose tech list holds a name that is not a technology, and accepts
\* every input whose names are all valid and whose point values are all
\* positive.
C22_FightDataValidates ==
    FightDataDone =>
        /\ ValidFightData => call.result.raised = "none"
        /\ ~ValidFightData => call.result.raised = "ValueError"

\* C23: get_start_tile(k) is ((k mod 6) * 20, (k div 6) * 20) for every k in
\* 0..35; the corners of the 36 tiles are pairwise distinct and every tile of
\* 20 x 20 lies inside the grid of 120 x 120.
C23_StartTiles ==
    /\ (call.fn = "get_start_tile" /\ call.returned) =>
          /\ call.index \in 0..35
          /\ call.result = <<(call.index % 6) * 20, (call.index \div 6) * 20>>
          /\ \A c \in 1..2 : call.result[c] >= 0 /\ call.result[c] + 20 <= 120
    /\ \A j \in 0..35 : \A k \in 0..35 : j # k => get_start_tile(j) # get_start_tile(k)

\* The call for the last tile has returned the corner (100, 100).
C23_Witness ==
    /\ call.fn = "get_start_tile"
    /\ call.returned
    /\ call.index = 35
    /\ call.result = <<100, 100>>
-----------------------------------------------------------------------------
(* Claims about the build command.                                         *)

\* C21: the build command rejects, before it reads or writes anything, every
\* run whose output path is the path of an input file the build reads (map
\* template, unit template, event file, Xbow template, arena template): no
\* run ever reads a file at its own output path, and a rejected run has read
\* and written nothing.
C21_OutputCollisionRejected ==
    cli.at # "none" =>
        /\ cli.args.output \notin cli.read
        /\ cli.at = "rejected" => cli.read = {} /\ cli.written = {}

-----------------------------------------------------------------------------
(* Claims about the event list make_fights returns.                        *)

\* The number of events the entry of a file stands for: two for a fight
\* whose tile holds units of both players, one otherwise.
WidthOf(entry) ==
    IF entry.kind = "FightData" /\ entry.p2_units # <<>> THEN 2 ELSE 1

RECURSIVE WidthUpTo(_, _)
WidthUpTo(event_data, k) ==
    IF k = 0 THEN 0 ELSE WidthUpTo(event_data, k - 1) + WidthOf(event_data[k])

\* What the events made of entry k of the file have to be.
EntryExpanded(event_data, events, k) ==
    LET entry == event_data[k]
        at == WidthUpTo(event_data, k - 1) + 1
    IN  IF IsMinigame(entry) THEN events[at] = entry
        ELSE IF entry.p2_units = <<>>
        THEN /\ IsFight(events[at])
             /\ events[at].p1_units = entry.p1_units
             /\ events[at].p2_units = entry.p1_units
             /\ events[at].p1_bonus = events[at].p2_bonus
        ELSE /\ IsFight(events[at]) /\ IsFight(events[at + 1])
             /\ events[at].p1_units = entry.p1_units
             /\ events[at].p2_units = entry.p2_units
             /\ events[at + 1].p1_units = entry.p2_units
             /\ events[at + 1].p2_units = entry.p1_units
             /\ events[at + 1].p1_bonus = events[at].p2_bonus
             /\ events[at + 1].p2_bonus = events[at].p1_bonus

\* C38: make_fights turns a fight whose tile holds units of both players
\* into two consecutive rounds in which the players swap armies, so that the
\* second round's p1_bonus is the first round's p2_bonus and the other way
\* round; a fight whose tile holds units of Player 1 only becomes one round
\* with p1_bonus equal to p2_bonus; the list has one event per minigame and
\* per mirrored fight and two per fight of both players.
C38_FightsExpanded ==
    (pc = "made_file" /\ fight.made = "accepted") =>
        /\ Len(fight.events) = WidthUpTo(fight.event_data, Len(fight.event_data))
        /\ \A k \in 1..Len(fight.event_data) :
              EntryExpanded(fight.event_data, fight.events, k)

\* A file of a minigame, a mirrored fight and a fight of both players has
\* become four events, the last two with unequal bonuses swapped.
C38_Witness ==
    /\ pc = "made_file" /\ fight.made = "accepted"
    /\ Len(fight.event_data) = 3 /\ Len(fight.events) = 4
    /\ \E k \in 1..3 : IsMinigame(fight.event_data[k])
    /\ \E k \in 1..3 : fight.event_data[k].kind = "FightData"
                          /\ fight.event_data[k].p2_units = <<>>
    /\ \E at \in 1..3 :
          /\ IsFight(fight.events[at]) /\ IsFight(fight.events[at + 1])
          /\ fight.events[at].p1_bonus # fight.events[at].p2_bonus
          /\ fight.events[at + 1].p1_bonus = fight.events[at].p2_bonus
-----------------------------------------------------------------------------
(* Claims about Capture the Relic played with the relics counted.          *)

\* A condition on the number of relics a player holds.
IsRelics(c) ==
    c.type = "accumulate_attribute" /\ c.resource_type_or_tribute_list = ACC_ATTR_RELICS

\* The relics the trigger at position i asks of a player, 0 if it asks none.
Asked(i, p) ==
    LET conds == game.prog.triggers[i].conditions
        hits == {j \in 1..Len(conds) : IsRelics(conds[j]) /\ conds[j].player = p}
    IN  IF hits = {} THEN 0 ELSE conds[CHOOSE j \in hits : TRUE].amount_or_quantity

\* The positions of the 'i-j' outcome triggers: the triggers of a round of
\* Capture the Relic all of whose conditions count relics.
Outcomes ==
    {i \in 1..Len(game.prog.triggers) :
        /\ game.prog.rounds[i] >= 1
        /\ game.prog.kinds[game.prog.rounds[i] + 1] = "Capture the Relic"
        /\ game.prog.triggers[i].conditions # <<>>
        /\ \A j \in 1..Len(game.prog.triggers[i].conditions) :
              IsRelics(game.prog.triggers[i].conditions[j])}

\* The outcome triggers of the sub-round that ends with T relics.
OutcomesOf(T) == {i \in Outcomes : Asked(i, 1) + Asked(i, 2) = T}

Held(p) == game.relics.held[p]

\* The outcome triggers are the 'i-j' triggers of the three thresholds; one is
\* ready only when the relics held sum to its threshold or more; and when the
\* sum is the threshold of the outcome triggers that are enabled, the one ready
\* trigger among them is the one that asks player 1's count of player 1.
C35_Guards ==
    (game.loaded /\ game.relics # NoRelics) =>
        /\ \A i \in Outcomes :
              /\ Asked(i, 1) + Asked(i, 2) \in {3, 6, 9}
              /\ game.prog.names[i] =
                    Prefix(game.prog.rounds[i]) \o " Capture the Relic "
                        \o ToString(Asked(i, 1)) \o "-" \o ToString(Asked(i, 2))
              /\ Ready(game, i) => Held(1) + Held(2) >= Asked(i, 1) + Asked(i, 2)
        /\ \A T \in {3, 6, 9} :
              /\ Cardinality(OutcomesOf(T)) = T + 1
              /\ OutcomesOf(T) \cap game.enabled \in {{}, OutcomesOf(T)}
              /\ (OutcomesOf(T) \cap game.enabled # {} /\ Held(1) + Held(2) = T) =>
                    {i \in OutcomesOf(T) : Ready(game, i)}
                        = {i \in OutcomesOf(T) : Asked(i, 1) = Held(1)}

\* What a step adds to a player's score.
StepGain(p) ==
    LET v == game.prog.var_ids[IF p = 1 THEN "p1-score" ELSE "p2-score"]
    IN  game'.vals[v] - game.vals[v]

\* A step that fires an outcome trigger finds the relics it names held, and
\* leaves no outcome trigger of its threshold enabled.  Below the last
\* threshold it awards nothing; at the last threshold it awards 10 points a
\* relic and 10 more to the player who holds more relics, 100 in all.
C35_Step ==
    (game.loaded /\ game'.loaded /\ game.relics # NoRelics
        /\ FiredBy(game, game') \in Outcomes) =>
        LET i == FiredBy(game, game')
            T == Asked(i, 1) + Asked(i, 2)
        IN  /\ <<Held(1), Held(2)>> = <<Asked(i, 1), Asked(i, 2)>>
            /\ OutcomesOf(T) \cap game'.enabled = {}
            /\ T < 9 => StepGain(1) = 0 /\ StepGain(2) = 0
            /\ T = 9 =>
                  /\ StepGain(1) + StepGain(2) = 100
                  /\ \E w \in 1..2 :
                        /\ Held(w) > Held(other_player(w))
                        /\ StepGain(w) = 10 * Held(w) + 10
                        /\ StepGain(other_player(w)) = 10 * Held(other_player(w))

\* C35: in Capture the Relic, for each sub-round with threshold T in
\* {3, 6, 9}, no 'i-j' outcome trigger (i + j = T) can fire while the
\* players' relics sum to less than T, exactly one fires when the sum reaches
\* T (the one with i equal to player 1's count), and in the last sub-round
\* the trigger that fires awards both players 100 points in all, the 10-point
\* bonus going to the player who holds more relics.
C35_RelicOutcomes == [](C35_Guards) /\ [][C35_Step]_vars

\* The last sub-round has ended 4-5: player 1 has gained 40 points and player
\* 2, who holds more relics, 60.
C35_Witness ==
    /\ game.loaded /\ game.relics # NoRelics
    /\ game.relics.held = <<4, 5>>
    /\ OutcomesOf(9) \cap game.enabled = {}
    /\ GainOf(1) = 40
    /\ GainOf(2) = 60

-----------------------------------------------------------------------------
(* Claims about the technologies of the rounds.                            *)

\* The players have every technology of the event of a round when the
\* round's Initialize Round trigger has fired.
HadTechs(init) ==
    \A tech \in Range(EventTechs(research.events[init.round + 1])) :
        \A p \in 1..2 : <<tech, p>> \in init.has

\* C30: for every accepted event list, every technology of the event of
\* round i has been researched by a trigger that fires no later than round
\* i's Initialize Round trigger, for the rounds 1..N in the order they are
\* played and then the tiebreaker; the deduplication of research never moves
\* a technology into a round played later than a round that needs it.
C30_TechsResearchedInTime ==
    research.at \in {"play", "done"} =>
        \A k \in 1..Len(research.inits) : HadTechs(research.inits[k])
====
